---- MODULE Spec2Model ----
(***************************************************************************)
(* SkyRETK dump_rtti: the RTTI scanner (LoadVTables), the class printer    *)
(* (PrintVirtuals) and the two-instruction decompiler                      *)
(* (SimpleFunctionDecompiler) of src/dump_rtti/RTTI.cpp, run from          *)
(* HandleSKSEMessage of src/dump_rtti/main.cpp.                            *)
(*                                                                         *)
(* Memory is a sparse byte map: an address outside DOMAIN mem reads 0.     *)
(* A 64-bit word is the pair <<low dword, high dword>>.  All addresses of  *)
(* the modelled images are below 2^31.                                     *)
(***************************************************************************)
EXTENDS Integers, Sequences, FiniteSets, TLC

(***************************************************************************)
(* Section offsets and RTTI constants (RTTI.h).                            *)
(***************************************************************************)
\* 0x00001000
TEXT_SEG_BEGIN == 4096
\* 0x01471648
PURE_CALL_ADDR == 21435976
\* 0x015fcb8c
TEXT_SEG_END == 23055244
\* 0x015fd000
RDATA_SEG_BEGIN == 23056384
\* 0x019752c0
TYPE_INFO_VTBL == 26694336
\* 0x01e3c276
RDATA_SEG_END == 31703670
\* 0x01e3d000
DATA_SEG_BEGIN == 31707136
\* 0x0352baf0
DATA_SEG_END == 55753456

COL_SIG_REV1 == 1

\* 0x40000000, the module base the comments of LoadVTables assume
EXAMPLE_BASE == 1073741824

(***************************************************************************)
(* Bounds of the model.                                                    *)
(***************************************************************************)
\* number of type descriptors laid out in an image
NumTypes == 4
\* number of complete object locators (and of tables, one per locator)
NumCols == 3
\* longest dispatch table of an image
MaxSlots == 3
\* number of kMessage_DataLoaded messages delivered to HandleSKSEMessage
MaxMessages == 2

Types == 1..NumTypes
Cols == 1..NumCols

VARIABLES
    baseAddr,   \* HMODULE of the executable
    mem,        \* the memory image: byte address -> byte
    names,      \* the null-terminated strings of the image: address -> string
    pc,         \* position of the program
    msgs,       \* number of kMessage_DataLoaded messages delivered so far
    lastMsg,    \* type of the last message delivered
    vtblMap,    \* std::map<UInt64, VtblList>: key -> sequence of table addresses
    si, sj, sk, \* loop variables i, j, k of LoadVTables
    pCol,       \* LoadVTables: address of the validated locator
    keys,       \* PrintVirtuals: keys of the map still to be visited, ascending
    tables,     \* PrintVirtuals: tables of the current type still to be visited
    vtbl,       \* PrintVirtuals: the current table
    vtparent,   \* PrintVirtuals: the parent table, 0 for nullptr
    bOverride,  \* PrintVirtuals: the @override line has been printed
    bAdd,       \* PrintVirtuals: the first addition has been seen
    idx,        \* PrintVirtuals: slot index i
    log,        \* the lines written with _MESSAGE
    recorded,   \* history: the accepted matches of LoadVTables, in order
    passStart,  \* history: length of the log when the current pass started
    prevMap,    \* history: the map of the previous pass
    prevLog,    \* history: the lines of the previous pass
    passes,     \* history: number of completed passes
    dfn,        \* decompiler run: funcAddr
    dres,       \* decompiler run: retOut, paramsOut and bodyOut
    dline,      \* decompiler run: the slot line PrintVirtuals builds for funcAddr
    hcall,      \* hierarchy run: the table, the caller's name, offset and
                \* hierarchy before and after the call, and the message
    reads,      \* history: the byte ranges the last step of LoadVTables read
    vmSlot,     \* dump_functions: the BindNativeMethod slot of the VirtualMachine table
    bindNativeMethod_Orig, \* dump_functions: the saved address of the original
    binds       \* history: the calls made through the slot, and what each one led to

vars == <<baseAddr, mem, names, pc, msgs, lastMsg, vtblMap, si, sj, sk, pCol, keys,
          tables, vtbl, vtparent, bOverride, bAdd, idx, log, recorded,
          passStart, prevMap, prevLog, passes, dfn, vmSlot,
                   bindNativeMethod_Orig, binds, dres, dline, hcall, reads>>

(***************************************************************************)
(* Raw memory reads.                                                       *)
(***************************************************************************)
Byte(m, a) == IF a \in DOMAIN m THEN m[a] ELSE 0

U16(m, a) == Byte(m, a) + 256 * Byte(m, a + 1)

U32(m, a) ==
    Byte(m, a) + 256 * Byte(m, a + 1) + 65536 * Byte(m, a + 2)
               + 16777216 * Byte(m, a + 3)

U64(m, a) == <<U32(m, a), U32(m, a + 4)>>

\* a UInt64 below 2^32
Ptr(v) == <<v, 0>>

\* the pages of the module: headers and the three sections
Readable(b, a) == b <= a /\ a < b + DATA_SEG_END

\* textStart <= v && v < textEnd, v a 64-bit word
InText(b, v) == v[2] = 0 /\ b + TEXT_SEG_BEGIN <= v[1] /\ v[1] < b + TEXT_SEG_END

\* an iteration that starts from the greatest key
Max(S) == CHOOSE x \in S : \A y \in S : x >= y

\* the first key of a std::map iteration: the least one
Min(S) == CHOOSE x \in S : \A y \in S : x <= y

(***************************************************************************)
(* The memory images: the RTTI structures of RTTI.h laid out in the three  *)
(* sections.  The base class array of the most derived type is             *)
(* [NumTypes, ..., 1]; in a chain type t derives from type t-1, in a tree   *)
(* the most derived type derives from type NumTypes-1, which derives from  *)
(* NumTypes-2, and directly from every type below that.                    *)
(* Locator c belongs to table c.                                           *)
(***************************************************************************)
W32(a, v) == [x \in a..(a + 3) |-> (v \div (256 ^ (x - a))) % 256]

W64(a, v) == W32(a, v) @@ W32(a + 4, 0)

WBytes(a, s) == [x \in a..(a + Len(s) - 1) |-> s[x - a + 1]]

RECURSIVE MergeSeq(_)
MergeSeq(fs) == IF fs = <<>> THEN <<>> ELSE Head(fs) @@ MergeSeq(Tail(fs))

\* offsets of the structures from the module base
TDOff(t) == DATA_SEG_BEGIN + 32 * (t - 1)
MetaOff(c) == RDATA_SEG_BEGIN + 8 * (MaxSlots + 2) * (c - 1)
ColOff(c) == RDATA_SEG_BEGIN + 256 + 32 * (c - 1)
ChdOff(t) == RDATA_SEG_BEGIN + 512 + 16 * (t - 1)
BcaOff(t) == RDATA_SEG_BEGIN + 768 + 32 * (t - 1)
BcdOff(t) == RDATA_SEG_BEGIN + 1024 + 32 * (t - 1)
FuncOff(n) == TEXT_SEG_BEGIN + 16 * (n - 1)
\* an offset past the last section
BadOff == DATA_SEG_END + 4096
\* an offset that is not in .text
HoleOff == RDATA_SEG_BEGIN

\* the little-endian bytes of a dword
Bytes32(v) == <<v % 256, (v \div 256) % 256, (v \div 65536) % 256, v \div 16777216>>

\* the code of the images at the pure-call trap: xor eax, eax; ret
PureCallCode == <<51, 192, 195>>

\* the functions of the images: mov al,1; ret / int3 / xor eax,eax; ret 8 /
\* mov eax, <address of the first table>; ret
FuncCode == << <<176, 1, 195>>, <<204>>, <<51, 192, 194, 8, 0>>,
               <<184>> \o Bytes32(EXAMPLE_BASE + MetaOff(1) + 8) \o <<195>> >>

TypeName(t) == ".?AV" \o SubSeq("ABCDEFGH", t, t) \o "@@"

\* struct TypeDescriptor
WTypeDescriptor(b, t, tag) ==
    W64(b + TDOff(t), IF tag THEN b + TYPE_INFO_VTBL ELSE b + TYPE_INFO_VTBL + 8)

\* struct RTTICompleteObjectLocator
WLocator(b, c, sig, off, cd, t, chd) ==
    W32(b + ColOff(c), sig) @@ W32(b + ColOff(c) + 4, off)
    @@ W32(b + ColOff(c) + 8, cd) @@ W32(b + ColOff(c) + 12, TDOff(t))
    @@ W32(b + ColOff(c) + 16, chd) @@ W32(b + ColOff(c) + 20, ColOff(c))

\* the number of classes in the hierarchy of type t
NumBases(t, shape) ==
    IF shape = "chain" \/ t = NumTypes THEN t
    ELSE IF t = NumTypes - 1 /\ t > 1 THEN 2 ELSE 1

\* struct RTTIClassHierarchyDescriptor and its base class array of n entries
WHierarchy(b, t, n) ==
    W32(b + ChdOff(t) + 8, n) @@ W32(b + ChdOff(t) + 12, BcaOff(t))
    @@ MergeSeq([x \in 1..n |-> W32(b + BcaOff(t) + 4 * (x - 1), BcdOff(t + 1 - x))])

\* struct RTTIBaseClassDescriptor
WBaseClass(b, t, contained, mdisp) ==
    W32(b + BcdOff(t), TDOff(t)) @@ W32(b + BcdOff(t) + 4, contained)
    @@ W32(b + BcdOff(t) + 8, mdisp)

\* the meta word and the slots of a dispatch table
WTable(b, c, meta, slots) ==
    W64(b + MetaOff(c), meta)
    @@ MergeSeq([n \in 1..Len(slots) |-> W64(b + MetaOff(c) + 8 * n, b + slots[n])])

\* p: the layout parameters of an image
Image(b, p) ==
    MergeSeq([t \in Types |-> WTypeDescriptor(b, t, t < NumTypes \/ p.tag)])
    @@ MergeSeq([c \in Cols |->
          WLocator(b, c,
                   IF c = 1 /\ p.defect = "sig" THEN COL_SIG_REV1 + 1 ELSE COL_SIG_REV1,
                   p.coff[c],
                   IF c = 1 /\ p.defect = "cd" THEN 4 ELSE 0,
                   p.ctype[c],
                   IF c = 1 /\ p.defect = "chd" THEN BadOff
                   ELSE IF c = 2 /\ p.defect = "nochd" THEN 0
                   ELSE ChdOff(p.ctype[c]))])
    @@ MergeSeq([t \in Types |-> WHierarchy(b, t, NumBases(t, p.shape))])
    @@ MergeSeq([t \in Types |-> WBaseClass(b, t, NumBases(t, p.shape) - 1,
                                             IF t = 1 THEN p.mdisp ELSE 0)])
    @@ MergeSeq([c \in Cols |->
          WTable(b, c, b + ColOff(c),
                 IF c = 1 /\ p.defect = "text" THEN <<HoleOff>> ELSE p.slots[c])])
    @@ MergeSeq([n \in 1..Len(FuncCode) |-> WBytes(b + FuncOff(n), FuncCode[n])])
    @@ WBytes(b + PURE_CALL_ADDR, PureCallCode)

ImageNames(b) == [a \in {b + TDOff(t) + 16 : t \in Types} |->
                    TypeName(CHOOSE t \in Types : a = b + TDOff(t) + 16)]

SeqsUpTo(S, n) == UNION {[1..k -> S] : k \in 0..n}

\* the layout of the images that vary something else: the first locator
\* belongs to the base class, the others to the most derived class, whose
\* primary table comes second
FixedType == [c \in Cols |-> IF c = 1 THEN 1 ELSE NumTypes]
FixedOffset == [c \in Cols |-> IF c < 3 THEN 0 ELSE 8]

\* images that vary the classes and the offsets of the first two locators,
\* and images with one malformed structure
ScanParams ==
    [tag : {TRUE},
     ctype : {[c \in Cols |-> IF c < 3 THEN f[c] ELSE NumTypes] : f \in [1..2 -> Types]},
     coff : {[c \in Cols |-> IF c < 3 THEN f[c] ELSE 8] : f \in [1..2 -> {0, 8}]},
     defect : {"none"}, mdisp : {0}, shape : {"chain"},
     slots : {[c \in Cols |-> <<FuncOff(1)>>]}]
    \cup
    [tag : BOOLEAN, ctype : {FixedType}, coff : {FixedOffset},
     defect : {"none", "sig", "cd", "text", "chd", "nochd"}, mdisp : {0, 8},
     shape : {"chain"},
     slots : {[c \in Cols |-> <<FuncOff(1)>>]}]

\* images whose most derived class has several direct bases
TreeParams ==
    [tag : {TRUE}, ctype : {FixedType}, coff : {FixedOffset},
     defect : {"none"}, mdisp : {0, 8}, shape : {"tree"},
     slots : {[c \in Cols |-> <<FuncOff(1)>>]}]

\* images that vary the table of a base class (with holes) and the primary
\* table of a class derived from it
PrintParams ==
    [tag : {TRUE}, ctype : {FixedType}, coff : {FixedOffset},
     defect : {"none"}, mdisp : {0}, shape : {"chain"},
     slots : {[c \in Cols |-> IF c = 1 THEN <<FuncOff(1)>> \o s1
                                ELSE IF c = 2 THEN s2
                                ELSE <<FuncOff(3), PURE_CALL_ADDR, FuncOff(4)>>] :
                s1 \in SeqsUpTo({FuncOff(1), HoleOff}, MaxSlots - 1),
                s2 \in SeqsUpTo({FuncOff(1), FuncOff(2)}, MaxSlots) \ {<<>>}}]

ImageParams == ScanParams \cup TreeParams \cup PrintParams

(***************************************************************************)
(* LoadVTables.  The three scan loops visit every aligned position of      *)
(* their section in ascending order; a position whose bytes are all        *)
(* outside DOMAIN mem reads 0 and matches nothing, so a loop is modelled   *)
(* by its matching positions, taken in ascending order.                    *)
(***************************************************************************)
\* the positions start, start + step, ... below end that hold a byte of m
ScanPositions(m, start, end, step) ==
    {q \in {a - ((a - start) % step) : a \in {x \in DOMAIN m : start <= x}} : q < end}

\* for (i = dataStart; i < dataEnd; i += 8) if (*p == vtblTypeInfo)
DescriptorHits(m, b) ==
    {i \in ScanPositions(m, b + DATA_SEG_BEGIN, b + DATA_SEG_END, 8) :
        U64(m, i) = Ptr(b + TYPE_INFO_VTBL)}

\* a j loop that stops at its first match
LocatorHitsFirst(m, b, pTypeDescriptor) ==
    {j \in ScanPositions(m, b + RDATA_SEG_BEGIN, b + RDATA_SEG_END, 4) :
        /\ U32(m, j) = pTypeDescriptor
        /\ \A h \in ScanPositions(m, b + RDATA_SEG_BEGIN, b + RDATA_SEG_END, 4) :
             U32(m, h) = pTypeDescriptor => j <= h}

\* for (j = rdataStart; j < rdataEnd; j += 4) if (*p == pTypeDescriptor)
LocatorHits(m, b, pTypeDescriptor) ==
    {j \in ScanPositions(m, b + RDATA_SEG_BEGIN, b + RDATA_SEG_END, 4) :
        U32(m, j) = pTypeDescriptor}

\* for (k = rdataStart; k < rdataEnd; k += 8) if (*p == pCol)
MetaHits(m, b, col) ==
    {k \in ScanPositions(m, b + RDATA_SEG_BEGIN, b + RDATA_SEG_END, 8) :
        U64(m, k) = Ptr(col)}

\* a locator check that forgets cdOffset
LocatorValidSignature(m, col) == U32(m, col) = COL_SIG_REV1

\* col->signature != COL_SIG_REV1 and col->cdOffset != 0 both fail
LocatorValid(m, col) == U32(m, col) = COL_SIG_REV1 /\ U32(m, col + 8) = 0

\* an insertion whose first branch falls through into the second
PushTableBoth(map, addr, front, v) ==
    (addr :> (IF front
              THEN Append(<<v>> \o (IF addr \in DOMAIN map THEN map[addr] ELSE <<>>), v)
              ELSE Append(IF addr \in DOMAIN map THEN map[addr] ELSE <<>>, v))) @@ map

\* an insertion whose first branch looks the list up and pushes nothing
PushTableBackOnly(map, addr, front, v) ==
    (addr :> (IF front THEN (IF addr \in DOMAIN map THEN map[addr] ELSE <<>>)
              ELSE Append(IF addr \in DOMAIN map THEN map[addr] ELSE <<>>, v))) @@ map

\* an insertion that starts the list afresh
PushTableAlone(map, addr, front, v) == (addr :> <<v>>) @@ map

\* an insertion that always appends
PushTableBack(map, addr, front, v) ==
    (addr :> Append(IF addr \in DOMAIN map THEN map[addr] ELSE <<>>, v)) @@ map

\* (col->offset == 0) ? vtblMap[addr].push_front(vtbl) : vtblMap[addr].push_back(vtbl)
PushTable(map, addr, front, v) ==
    LET cur == IF addr \in DOMAIN map THEN map[addr] ELSE <<>>
    IN  (addr :> (IF front THEN <<v>> \o cur ELSE Append(cur, v))) @@ map

\* a read of the bytes lo..hi for a descriptor word, a locator field, a
\* meta word or the first entry of a table
ReadOf(kind, lo, hi) == [kind |-> kind, lo |-> lo, hi |-> hi]

\* the reads of *p in a loop that runs from position from to its end: the
\* last one is made at the last position below end
LoopReads(kind, from, end, step) ==
    IF from < end
    THEN {ReadOf(kind, from, from + ((end - 1 - from) \div step) * step + step - 1)}
    ELSE {}

\* the reads of col->signature and, when it is COL_SIG_REV1, col->cdOffset
LocatorChecks(m, col) ==
    {ReadOf("field", col, col + 3)}
    \cup (IF U32(m, col) = COL_SIG_REV1 THEN {ReadOf("field", col + 8, col + 11)} ELSE {})

LVUnchanged == UNCHANGED <<baseAddr, mem, names, msgs, lastMsg, keys, tables, vtbl,
                           vtparent, bOverride, bAdd, idx, log, passStart,
                           prevMap, prevLog, passes, dfn, vmSlot,
                   bindNativeMethod_Orig, binds, dres, dline, hcall>>

\* the i loop reaches a word equal to vtblTypeInfo
LV_Descriptor ==
    /\ pc = "scan_i"
    /\ \E i \in DescriptorHits(mem, baseAddr) :
         /\ i >= si
         /\ \A h \in DescriptorHits(mem, baseAddr) : h >= si => i <= h
         /\ si' = i
         /\ reads' = {ReadOf("descriptor", si, i + 7)}
    /\ sj' = baseAddr + RDATA_SEG_BEGIN
    /\ pc' = "scan_j"
    /\ UNCHANGED <<vtblMap, sk, pCol, recorded>>
    /\ LVUnchanged

\* the i loop ends: LoadVTables returns and PrintVirtuals starts on a copy of the map
LV_Return ==
    /\ pc = "scan_i"
    /\ \A h \in DescriptorHits(mem, baseAddr) : h < si
    /\ pc' = "pv_type"
    /\ keys' = DOMAIN vtblMap
    /\ reads' = LoopReads("descriptor", si, baseAddr + DATA_SEG_END, 8)
    /\ UNCHANGED <<baseAddr, mem, names, msgs, lastMsg, vtblMap, si, sj, sk, pCol, tables,
                   vtbl, vtparent, bOverride, bAdd, idx, log, recorded, passStart,
                   prevMap, prevLog, passes, dfn, vmSlot,
                   bindNativeMethod_Orig, binds, dres, dline, hcall>>

\* the j loop reaches a dword equal to pTypeDescriptor; the candidate
\* locator 0x0C bytes before it fails a check: continue
LV_LocatorReject ==
    /\ pc = "scan_j"
    /\ \E j \in LocatorHits(mem, baseAddr, si - baseAddr) :
         /\ j >= sj
         /\ \A h \in LocatorHits(mem, baseAddr, si - baseAddr) : h >= sj => j <= h
         /\ ~LocatorValid(mem, j - 12)
         /\ sj' = j + 4
         /\ reads' = {ReadOf("field", sj, j + 3)} \cup LocatorChecks(mem, j - 12)
    /\ UNCHANGED <<pc, vtblMap, si, sk, pCol, recorded>>
    /\ LVUnchanged

\* the candidate locator passes both checks: the k loop starts
LV_LocatorAccept ==
    /\ pc = "scan_j"
    /\ \E j \in LocatorHits(mem, baseAddr, si - baseAddr) :
         /\ j >= sj
         /\ \A h \in LocatorHits(mem, baseAddr, si - baseAddr) : h >= sj => j <= h
         /\ LocatorValid(mem, j - 12)
         /\ sj' = j
         /\ pCol' = j - 12
         /\ reads' = {ReadOf("field", sj, j + 3)} \cup LocatorChecks(mem, j - 12)
    /\ sk' = baseAddr + RDATA_SEG_BEGIN
    /\ pc' = "scan_k"
    /\ UNCHANGED <<vtblMap, si, recorded>>
    /\ LVUnchanged

\* the j loop ends: next i
LV_LocatorEnd ==
    /\ pc = "scan_j"
    /\ \A h \in LocatorHits(mem, baseAddr, si - baseAddr) : h < sj
    /\ si' = si + 8
    /\ pc' = "scan_i"
    /\ reads' = LoopReads("field", sj, baseAddr + RDATA_SEG_END, 4)
    /\ UNCHANGED <<vtblMap, sj, sk, pCol, recorded>>
    /\ LVUnchanged

\* the k loop reaches a word equal to pCol whose next word points into .text
LV_TableAccept ==
    /\ pc = "scan_k"
    /\ \E k \in MetaHits(mem, baseAddr, pCol) :
         /\ k >= sk
         /\ \A h \in MetaHits(mem, baseAddr, pCol) : h >= sk => k <= h
         /\ InText(baseAddr, U64(mem, k + 8))
         /\ LET addr == baseAddr + U32(mem, pCol + 12)
                front == U32(mem, pCol + 4) = 0
            IN  /\ vtblMap' = PushTable(vtblMap, addr, front, k + 8)
                /\ recorded' = Append(recorded,
                      [i |-> si, col |-> pCol, k |-> k, key |-> addr, front |-> front])
         /\ sk' = k + 8
         /\ reads' = {ReadOf("meta", sk, k + 7), ReadOf("entry", k + 8, k + 15),
                      ReadOf("field", pCol + 12, pCol + 15),
                      ReadOf("field", pCol + 4, pCol + 7)}
    /\ UNCHANGED <<pc, si, sj, pCol>>
    /\ LVUnchanged

\* the word after the meta word does not point into .text: nothing is recorded
LV_TableReject ==
    /\ pc = "scan_k"
    /\ \E k \in MetaHits(mem, baseAddr, pCol) :
         /\ k >= sk
         /\ \A h \in MetaHits(mem, baseAddr, pCol) : h >= sk => k <= h
         /\ ~InText(baseAddr, U64(mem, k + 8))
         /\ sk' = k + 8
         /\ reads' = {ReadOf("meta", sk, k + 7), ReadOf("entry", k + 8, k + 15)}
    /\ UNCHANGED <<pc, vtblMap, si, sj, pCol, recorded>>
    /\ LVUnchanged

\* the k loop ends: next j
LV_TableEnd ==
    /\ pc = "scan_k"
    /\ \A h \in MetaHits(mem, baseAddr, pCol) : h < sk
    /\ sj' = sj + 4
    /\ pc' = "scan_j"
    /\ reads' = LoopReads("meta", sk, baseAddr + RDATA_SEG_END, 8)
    /\ UNCHANGED <<vtblMap, si, sk, pCol, recorded>>
    /\ LVUnchanged

(***************************************************************************)
(* Text formatting.                                                        *)
(***************************************************************************)
HexDigit(d) == SubSeq("0123456789ABCDEF", d + 1, d + 1)

\* %X of a non-negative value
RECURSIVE HexStr(_)
HexStr(n) == IF n < 16 THEN HexDigit(n) ELSE HexStr(n \div 16) \o HexDigit(n % 16)

RECURSIVE Fill(_, _)
Fill(ch, n) == IF n <= 0 THEN "" ELSE ch \o Fill(ch, n - 1)

\* %X in place of %0wX: no zero padding
HexUnpadded(n, w) == HexStr(n)

\* %0wX, and setw(w) with setfill('0') and std::hex
Hex(n, w) == Fill("0", w - Len(HexStr(n))) \o HexStr(n)

\* %d of a value in 0..99999
RECURSIVE DecStr(_)
DecStr(n) == IF n < 10 THEN HexDigit(n) ELSE DecStr(n \div 10) \o HexDigit(n % 10)

\* std::string::find: position from 1, 0 when absent
RECURSIVE StrFindFrom(_, _, _)
StrFindFrom(s, sub, at) ==
    IF at + Len(sub) - 1 > Len(s) THEN 0
    ELSE IF SubSeq(s, at, at + Len(sub) - 1) = sub THEN at
    ELSE StrFindFrom(s, sub, at + 1)

StrFind(s, sub) == StrFindFrom(s, sub, 1)

\* the null-terminated string at address a
StrAt(nm, a) == IF a \in DOMAIN nm THEN nm[a] ELSE ""

(***************************************************************************)
(* Dbghelp's UnDecorateSymbolName on the decorated names of the images:    *)
(* "??_R0?AV<id>@@@8" is "class <id> `RTTI Type Descriptor'"; any other    *)
(* name fails and gives "".                                                *)
(***************************************************************************)
UnDecorateSymbolName(s) ==
    IF Len(s) > 12 /\ SubSeq(s, 1, 8) = "??_R0?AV" /\ SubSeq(s, Len(s) - 3, Len(s)) = "@@@8"
    THEN "class " \o SubSeq(s, 9, Len(s) - 4) \o " `RTTI Type Descriptor'"
    ELSE ""

\* tmp.erase(pos, n) when pos != npos; pos counts from 1, 0 is npos
EraseFound(s, pos, n) ==
    IF pos # 0 THEN SubSeq(s, 1, pos - 1) \o SubSeq(s, pos + n, Len(s)) ELSE s

\* the second half of UnmangleRTTITypeName: und is what UnDecorateSymbolName gave
Undecorated(und, mangled) ==
    IF und # ""
    THEN EraseFound(und, StrFind(und, " `RTTI Type Descriptor'"), Len(" `RTTI Type Descriptor'"))
    ELSE mangled

\* UnmangleRTTITypeName; mangled is not empty
UnmangleRTTITypeName(mangled) ==
    Undecorated(UnDecorateSymbolName(IF SubSeq(mangled, 1, 1) = "."
                                     THEN "??_R0" \o SubSeq(mangled, 2, Len(mangled)) \o "@8"
                                     ELSE mangled),
                mangled)

(***************************************************************************)
(* Hierarchy decoder.  A read of an address outside the module raises an   *)
(* access violation: caught inside __try, fatal elsewhere ("fault").       *)
(***************************************************************************)
\* n bytes at address a can be read
CanRead(b, a, n) == Readable(b, a) /\ Readable(b, a + n - 1)

\* the same for a 64-bit pointer value
CanReadAt(b, ptr, off, n) == ptr[2] = 0 /\ CanRead(b, ptr[1] + off, n)

\* what std::type_info::name() does on a descriptor that is not a type_info
ForeignOutcomes == {"fault", "name"}

\* the second read of GetTypeDescriptor: rtti->pTypeDescriptor
TypeOfLocator(m, b, rtti) ==
    IF ~CanReadAt(b, rtti, 12, 4) THEN 0 ELSE b + U32(m, rtti[1] + 12)

\* GetTypeDescriptor; v is the pointer as a 64-bit word, the result 0 for nullptr
GetTypeDescriptor(m, b, v) ==
    IF ~CanReadAt(b, v, -8, 8) THEN 0 ELSE TypeOfLocator(m, b, U64(m, v[1] - 8))

Named(name) == [fault |-> FALSE, name |-> name]

NameFault == [fault |-> TRUE, name |-> ""]

\* UnmangleRTTITypeName(type->name, unmangled); at(0) throws on an empty name
UnmangledName(mangled) ==
    IF mangled = "" THEN NameFault ELSE Named(UnmangleRTTITypeName(mangled))

\* GetUnmangledTypeName
GetUnmangledTypeName(m, nm, b, type, fo) ==
    IF ~CanRead(b, type, 8) THEN NameFault
    ELSE IF U64(m, type) = Ptr(b + TYPE_INFO_VTBL) THEN UnmangledName(StrAt(nm, type + 16))
    ELSE IF fo = "fault" THEN NameFault
    ELSE Named(StrAt(nm, type + 16))

\* GetTypeHierarchyInfo returns false; out holds the caller's name, offset
\* and hierarchy as they are at that point
NoHierarchyInfo(out) ==
    [success |-> FALSE, name |-> out.name, offset |-> out.offset,
     hierarchy |-> out.hierarchy]

\* GetTypeHierarchyInfo after name has been assigned: offset = rtti->offset,
\* then hierarchy = baseAddr + rtti->pClassDescriptor, then success = true
HierarchyInfoFields(m, b, rtti, out) ==
    IF ~CanReadAt(b, rtti, 4, 4) THEN NoHierarchyInfo(out)
    ELSE IF ~CanReadAt(b, rtti, 16, 4)
    THEN NoHierarchyInfo([out EXCEPT !.offset = U32(m, rtti[1] + 4)])
    ELSE [success |-> TRUE, name |-> out.name, offset |-> U32(m, rtti[1] + 4),
          hierarchy |-> b + U32(m, rtti[1] + 16)]

\* GetTypeHierarchyInfo once GetUnmangledTypeName has returned or thrown
HierarchyInfoNamed(m, b, rtti, out, un) ==
    IF un.fault THEN NoHierarchyInfo(out)
    ELSE HierarchyInfoFields(m, b, rtti, [out EXCEPT !.name = un.name])

\* a test of type->pVFTable that accepts every descriptor
HierarchyInfoOfTypeAny(m, nm, b, rtti, type, out, fo) ==
    IF ~CanRead(b, type, 8) THEN NoHierarchyInfo(out)
    ELSE HierarchyInfoNamed(m, b, rtti, out, GetUnmangledTypeName(m, nm, b, type, fo))

\* GetTypeHierarchyInfo from the test of type->pVFTable on
HierarchyInfoOfType(m, nm, b, rtti, type, out, fo) ==
    IF ~CanRead(b, type, 8) THEN NoHierarchyInfo(out)
    ELSE IF U64(m, type) # Ptr(b + TYPE_INFO_VTBL) THEN NoHierarchyInfo(out)
    ELSE HierarchyInfoNamed(m, b, rtti, out, GetUnmangledTypeName(m, nm, b, type, fo))

\* GetTypeHierarchyInfo from the read of rtti->pTypeDescriptor on
HierarchyInfoOfLocator(m, nm, b, rtti, out, fo) ==
    IF ~CanReadAt(b, rtti, 12, 4) THEN NoHierarchyInfo(out)
    ELSE HierarchyInfoOfType(m, nm, b, rtti, b + U32(m, rtti[1] + 12), out, fo)

\* GetTypeHierarchyInfo; vt is the address of the table, out the caller's
\* name, offset and hierarchy on entry
GetTypeHierarchyInfo(m, nm, b, vt, out, fo) ==
    IF ~CanRead(b, vt - 8, 8) THEN NoHierarchyInfo(out)
    ELSE HierarchyInfoOfLocator(m, nm, b, U64(m, vt - 8), out, fo)

\* the branches of GetObjectClassName
ClassNameOfType(m, nm, b, type, fo) ==
    IF type # 0 THEN GetUnmangledTypeName(m, nm, b, type, fo) ELSE Named("<no rtti>")

\* GetObjectClassName
GetObjectClassName(m, nm, b, vt, fo) ==
    ClassNameOfType(m, nm, b, GetTypeDescriptor(m, b, Ptr(vt)), fo)

\* an indents loop that prints a column for the self entry too
IndentOfAll(depth) == Fill("|   ", Cardinality({n \in DOMAIN depth : depth[n] > 0}))

\* the indents loop of DumpObjectClassHierarchy: one "|   " per open column
\* of index above 0, and every open column counts down
IndentOf(depth) == Fill("|   ", Cardinality({n \in DOMAIN depth : n > 0 /\ depth[n] > 0}))

CountDown(depth) == [n \in DOMAIN depth |-> IF depth[n] > 0 THEN depth[n] - 1 ELSE depth[n]]

Rows(str) == [fault |-> FALSE, str |-> str]

RowsFault == [fault |-> TRUE, str |-> ""]

\* one row: displacement, indents, name; then the rows after it
RowText(mdisp, depth, un, rest) ==
    IF un.fault \/ rest.fault THEN RowsFault
    ELSE Rows(Hex(mdisp, 4) \o ": " \o IndentOf(depth) \o un.name \o "\n" \o rest.str)

\* the rows i, i + 1, ... of the base class array
RECURSIVE HierarchyRows(_, _, _, _, _, _, _, _)
\* the body of the loop for the entry at baseClass
HierarchyRow(m, nm, b, pClassArray, nClasses, i, baseClass, depth, fo) ==
    IF ~CanRead(b, baseClass, 24) THEN RowsFault
    ELSE RowText(U32(m, baseClass + 8), depth,
                 GetUnmangledTypeName(m, nm, b, b + U32(m, baseClass), fo),
                 HierarchyRows(m, nm, b, pClassArray, nClasses, i + 1, CountDown(depth), fo))

\* depth[i] = baseClass->numContainedBases + 1
DepthAt(m, depth, i, baseClass) == [depth EXCEPT ![i] = U32(m, baseClass + 4) + 1]

HierarchyRows(m, nm, b, pClassArray, nClasses, i, depth, fo) ==
    IF i >= nClasses THEN Rows("")
    ELSE IF ~CanRead(b, pClassArray + 4 * i, 4) THEN RowsFault
    ELSE HierarchyRow(m, nm, b, pClassArray, nClasses, i, b + U32(m, pClassArray + 4 * i),
                      DepthAt(m, depth, i, b + U32(m, pClassArray + 4 * i)), fo)

\* out.pop_back()
PopBack(out) == SubSeq(out, 1, Len(out) - 1)

\* the message of DumpObjectClassHierarchy: header and rows
HierarchyText(info, vt, rows) ==
    IF rows.fault THEN RowsFault
    ELSE Rows(PopBack(info.name \o " +" \o Hex(info.offset, 4) \o " (_vtbl=" \o Hex(vt, 8)
                      \o ")" \o "\n" \o rows.str))

\* a loop over the base class array that starts after the self entry
DumpHierarchyOfSkipSelf(m, nm, b, vt, info, fo) ==
    IF ~info.success THEN Rows("<no rtti>")
    ELSE IF ~CanRead(b, info.hierarchy, 16) THEN RowsFault
    ELSE HierarchyText(info, vt,
             HierarchyRows(m, nm, b, b + U32(m, info.hierarchy + 12),
                           U32(m, info.hierarchy + 8), 1,
                           [n \in 0..(U32(m, info.hierarchy + 8) - 1) |-> 0], fo))

\* DumpObjectClassHierarchy once GetTypeHierarchyInfo has returned
DumpHierarchyOf(m, nm, b, vt, info, fo) ==
    IF ~info.success THEN Rows("<no rtti>")
    ELSE IF ~CanRead(b, info.hierarchy, 16) THEN RowsFault
    ELSE HierarchyText(info, vt,
             HierarchyRows(m, nm, b, b + U32(m, info.hierarchy + 12),
                           U32(m, info.hierarchy + 8), 0,
                           [n \in 0..(U32(m, info.hierarchy + 8) - 1) |-> 0], fo))

\* the locals name, offset and hierarchy of DumpObjectClassHierarchy; offset
\* and hierarchy are not initialised, and are read only after
\* GetTypeHierarchyInfo has assigned them
HierarchyLocals == [name |-> "", offset |-> 0, hierarchy |-> 0]

\* DumpObjectClassHierarchy with verbose == false: the text of its one message
DumpObjectClassHierarchy(m, nm, b, vt, fo) ==
    DumpHierarchyOf(m, nm, b, vt,
                    GetTypeHierarchyInfo(m, nm, b, vt, HierarchyLocals, fo), fo)

Parent(val) == [fault |-> FALSE, val |-> val]

ParentFault == [fault |-> TRUE, val |-> 0]

\* the loop of GetParentVtbl from entry i on
RECURSIVE ParentSearch(_, _, _, _, _, _, _)
\* the body of the loop for the entry at baseClass
ParentMatch(m, b, map, offset, pClassArray, nClasses, i, baseClass) ==
    IF ~CanRead(b, baseClass, 24) THEN ParentFault
    ELSE IF U32(m, baseClass + 8) = offset /\ (b + U32(m, baseClass)) \in DOMAIN map
    THEN Parent(Head(map[b + U32(m, baseClass)]))
    ELSE ParentSearch(m, b, map, offset, pClassArray, nClasses, i + 1)

ParentSearch(m, b, map, offset, pClassArray, nClasses, i) ==
    IF i >= nClasses THEN Parent(0)
    ELSE IF ~CanRead(b, pClassArray + 4 * i, 4) THEN ParentFault
    ELSE ParentMatch(m, b, map, offset, pClassArray, nClasses, i,
                     b + U32(m, pClassArray + 4 * i))

\* a search that starts at the self entry
ParentOfLocatorFromSelf(m, b, map, col) ==
    IF ~CanReadAt(b, col, 0, 24) THEN ParentFault
    ELSE IF U32(m, col[1] + 16) = 0 THEN Parent(0)
    ELSE IF ~CanRead(b, b + U32(m, col[1] + 16), 16) THEN ParentFault
    ELSE ParentSearch(m, b, map, U32(m, col[1] + 4),
                      b + U32(m, b + U32(m, col[1] + 16) + 12),
                      U32(m, b + U32(m, col[1] + 16) + 8), 0)

\* GetParentVtbl from the test of col->pClassDescriptor on
ParentOfLocator(m, b, map, col) ==
    IF ~CanReadAt(b, col, 0, 24) THEN ParentFault
    ELSE IF U32(m, col[1] + 16) = 0 THEN Parent(0)
    ELSE IF ~CanRead(b, b + U32(m, col[1] + 16), 16) THEN ParentFault
    ELSE ParentSearch(m, b, map, U32(m, col[1] + 4),
                      b + U32(m, b + U32(m, col[1] + 16) + 12),
                      U32(m, b + U32(m, col[1] + 16) + 8), 1)

\* GetParentVtbl: the parent table, 0 for nullptr
GetParentVtbl(m, b, map, vt) ==
    IF ~CanRead(b, vt - 8, 8) THEN ParentFault
    ELSE ParentOfLocator(m, b, map, U64(m, vt - 8))

(***************************************************************************)
(* SimpleFunctionDecompiler.                                               *)
(***************************************************************************)
RECURSIVE StripZeros(_)
StripZeros(s) == IF Len(s) > 1 /\ SubSeq(s, 1, 1) = "0" THEN StripZeros(SubSeq(s, 2, Len(s))) ELSE s

\* %08X of the dword at a
Hex32At(m, a) ==
    Hex(Byte(m, a + 3), 2) \o Hex(Byte(m, a + 2), 2) \o Hex(Byte(m, a + 1), 2) \o Hex(Byte(m, a), 2)

\* %X of (UInt8)code[n]: the byte without sign extension
HexUInt8(v) == HexStr(v)

\* %X of (SInt8)code[n]: the byte sign-extended to int
HexSInt8(v) == IF v < 128 THEN HexStr(v) ELSE "FFFFFF" \o Hex(v, 2)

\* %X of *(SInt32*)&code[n]
HexSInt32At(m, a) == StripZeros(Hex32At(m, a))

\* the "mov eax, imm32" and "lea rax, [rbx+imm32]" branches: p is the 64-bit
\* word read at a
Opening(ret, body, size) == [fault |-> FALSE, ret |-> ret, body |-> body, size |-> size]

\* the branch "if (type)": un is what GetUnmangledTypeName stored in ret
TypedLiteral(un, hex, size) ==
    IF un.fault THEN [fault |-> TRUE, ret |-> "", body |-> "", size |-> size]
    ELSE Opening(un.name \o " *", "{ return (" \o un.name \o " *" \o ")" \o "0x" \o hex \o "; }", size)

\* both branches on the result of GetTypeDescriptor
PointerLiteral(m, nm, b, type, hex, size, fo) ==
    IF type # 0 THEN TypedLiteral(GetUnmangledTypeName(m, nm, b, type, fo), hex, size)
    ELSE Opening("UInt32", "{ return 0x" \o hex \o "; }", size)

TypedPointer(m, nm, b, a, size, fo) ==
    PointerLiteral(m, nm, b, GetTypeDescriptor(m, b, U64(m, a)), Hex32At(m, a), size, fo)

\* the first instruction: return type, body and the number of bytes consumed
ParseOpening(m, nm, b, f, fo) ==
    LET c0 == Byte(m, f)
        c1 == Byte(m, f + 1)
        c2 == Byte(m, f + 2)
        c3 == Byte(m, f + 3)
        none == Opening("????  ", "", 0)
    IN  IF c0 = 50 /\ c1 = 192 THEN Opening("bool  ", "{ return false; }", 2)
        ELSE IF c0 = 51 /\ c1 = 192 THEN Opening("UInt32", "{ return 0; }", 2)
        ELSE IF c0 = 131 /\ c1 = 200 /\ c2 = 255 THEN Opening("Sint32", "{ return -1; }", 3)
        ELSE IF c0 = 15 /\ c1 = 87 /\ c2 = 192 THEN Opening("float", "{ return 0.0f; }", 3)
        ELSE IF c0 = 176
        THEN IF c1 = 0 THEN Opening("bool  ", "{ return false; }", 2)
             ELSE IF c1 = 1 THEN Opening("bool  ", "{ return true; }", 2)
             ELSE Opening("UInt8 ", "{ return 0x" \o Hex(c1, 2) \o "; }", 2)
        ELSE IF c0 = 138
        THEN IF c1 = 65
             THEN Opening("UInt8 ", "{ return (UInt8)unk" \o HexSInt8(c2) \o "; }", 3)
             ELSE IF c1 = 129
             THEN Opening("UInt8 ", "{ return (UInt8)unk" \o HexSInt32At(m, f + 2) \o "; }", 6)
             ELSE none
        ELSE IF c0 = 72 /\ c1 = 139
        THEN IF c2 = 193 THEN Opening("void *", "{ return this; }", 3)
             ELSE IF c2 = 65
             THEN Opening("UInt64", "{ return (UInt64)unk" \o HexSInt8(c3) \o "; }", 4)
             ELSE IF c2 = 129
             THEN Opening("UInt64", "{ return (UInt64)unk" \o HexSInt32At(m, f + 3) \o "; }", 7)
             ELSE none
        ELSE IF c0 = 184
        THEN TypedPointer(m, nm, b, f + 1, 5, fo)
        ELSE IF c0 = 72 /\ c1 = 141
        THEN IF c2 = 65
             THEN Opening("void *", "{ return &unk" \o HexSInt8(c3) \o "; }", 4)
             ELSE IF c2 = 129
             THEN Opening("void *", "{ return &unk" \o HexSInt32At(m, f + 3) \o "; }", 7)
             ELSE IF c3 = 5
             THEN TypedPointer(m, nm, b, f + 4, 7, fo)
             ELSE none
        ELSE none

\* a switch whose default prints the operand itself
RetnParamsBytes(imm) ==
    CASE imm = 0 -> "void"
      [] imm = 4 -> "UInt32 arg"
      [] imm = 8 -> "UInt32 arg1, UInt32 arg2"
      [] imm = 12 -> "UInt32 arg1, UInt32 arg2, UInt32 arg3"
      [] imm = 16 -> "UInt32 arg1, UInt32 arg2, UInt32 arg3, UInt32 arg4"
      [] OTHER -> "UInt32 * " \o DecStr(imm)

\* the switch on the operand of "retn imm16"
RetnParams(imm) ==
    CASE imm = 0 -> "void"
      [] imm = 4 -> "UInt32 arg"
      [] imm = 8 -> "UInt32 arg1, UInt32 arg2"
      [] imm = 12 -> "UInt32 arg1, UInt32 arg2, UInt32 arg3"
      [] imm = 16 -> "UInt32 arg1, UInt32 arg2, UInt32 arg3, UInt32 arg4"
      [] OTHER -> "UInt32 * " \o DecStr(imm \div 4)

Decompiled(ret, params, body) == [fault |-> FALSE, ret |-> ret, params |-> params, body |-> body]

\* the assignments after the second instruction without the stub test
DecompiledAsParsed(op, params) == Decompiled(op.ret, params, op.body)

\* a stub test that also takes the two-byte openings for "nothing recognized"
DecompiledAsShort(op, params) ==
    IF op.size <= 2 THEN Decompiled("void  ", params, "{ return; }")
    ELSE Decompiled(op.ret, params, op.body)

\* the assignments after the second instruction
DecompiledAs(op, params) ==
    IF op.size = 0 THEN Decompiled("void  ", params, "{ return; }")
    ELSE Decompiled(op.ret, params, op.body)

\* a second instruction that is no return does not end the function early
ParseReturnFallThrough(m, code, op, retOut, paramsOut, bodyOut) ==
    IF op.fault THEN [fault |-> TRUE, ret |-> retOut, params |-> paramsOut, body |-> bodyOut]
    ELSE IF Byte(m, code + op.size) = 195 THEN DecompiledAs(op, "void")
    ELSE IF Byte(m, code + op.size) = 194
    THEN DecompiledAs(op, RetnParams(U16(m, code + op.size + 1)))
    ELSE DecompiledAs(op, "")

\* the second instruction, at code + size
ParseReturn(m, code, op, retOut, paramsOut, bodyOut) ==
    IF op.fault THEN [fault |-> TRUE, ret |-> retOut, params |-> paramsOut, body |-> bodyOut]
    ELSE IF Byte(m, code + op.size) = 195 THEN DecompiledAs(op, "void")
    ELSE IF Byte(m, code + op.size) = 194
    THEN DecompiledAs(op, RetnParams(U16(m, code + op.size + 1)))
    ELSE Decompiled(retOut, paramsOut, bodyOut)

\* SimpleFunctionDecompiler: the values of retOut, paramsOut and bodyOut on
\* return, given their values on entry
SimpleFunctionDecompiler(m, nm, b, funcAddr, retOut, paramsOut, bodyOut, fo) ==
    ParseReturn(m, funcAddr, ParseOpening(m, nm, b, funcAddr, fo), retOut, paramsOut, bodyOut)

(***************************************************************************)
(* PrintVirtuals.  A line of the log is a record: the text handed to       *)
(* _MESSAGE and, for a slot line, the values of vtbl, i, vtparent, ret,    *)
(* params and body it was built from.                                      *)
(***************************************************************************)
Line(tag, vt, i, parent, ret, params, body, str) ==
    [tag |-> tag, vtbl |-> vt, i |-> i, parent |-> parent, ret |-> ret,
     params |-> params, body |-> body, str |-> str]

Text(tag, str) == Line(tag, 0, 0, 0, "", "", "", str)

\* vtbl[i] and vtparent[i]
Slot(m, vt, i) == U64(m, vt + 8 * i)

\* a slot loop that compares a slot with the parent's next slot
SlotInheritedNext(m, b, vt, parent, i) ==
    parent # 0 /\ InText(b, Slot(m, parent, i)) /\ Slot(m, vt, i) = Slot(m, parent, i + 1)

\* the first test of the loop body: the slot is inherited unchanged
SlotInherited(m, b, vt, parent, i) ==
    parent # 0 /\ InText(b, Slot(m, parent, i)) /\ Slot(m, vt, i) = Slot(m, parent, i)

\* a loop body that keeps vtparent when the parent's slot leaves .text
ParentAfterKeep(m, b, parent, i) == parent

\* vtparent after the first test of the loop body
ParentAfter(m, b, parent, i) ==
    IF parent # 0 /\ ~InText(b, Slot(m, parent, i)) THEN 0 ELSE parent

\* a slot loop that decompiles the pure-call trap like any other function
SlotSignatureDecompiled(m, nm, b, v, fo) ==
    SimpleFunctionDecompiler(m, nm, b, v[1], "????  ", "????", "", fo)

\* ret, params and body of a slot
SlotSignature(m, nm, b, v, fo) ==
    IF v = Ptr(b + PURE_CALL_ADDR)
    THEN [fault |-> FALSE, ret |-> "????  ", params |-> "????", body |-> "(pure)"]
    ELSE SimpleFunctionDecompiler(m, nm, b, v[1], "????  ", "????", "", fo)

\* if (numPad < 4) numPad = 4; then numPad spaces
Pad(numPad) == Fill(" ", IF numPad < 4 THEN 4 ELSE numPad)

\* the text of a slot line
SlotText(i, v, parent, sig) ==
    "    virtual " \o sig.ret \o " " \o "Unk_" \o Hex(i, 3) \o "(" \o sig.params \o ")"
    \o (IF parent # 0 THEN " override" ELSE "") \o ";"
    \o Pad(40 - Len(sig.params) - (IF parent # 0 THEN 9 ELSE 0))
    \o "// " \o Hex(v[1], 8)
    \o (IF sig.body # "" THEN " " \o sig.body ELSE "")

\* an "@override" line with every overriding slot
OverrideLineEach(vt, i, parent, printed, cls) ==
    IF parent # 0
    THEN <<Line("override", vt, i, parent, "", "", "",
                "    // @override " \o cls.name \o " : (vtbl=" \o Hex(vt, 8) \o ")")>>
    ELSE <<>>

\* the "@override" line, printed with the first overriding slot of a table
OverrideLine(vt, i, parent, printed, cls) ==
    IF parent # 0 /\ ~printed
    THEN <<Line("override", vt, i, parent, "", "", "",
                "    // @override " \o cls.name \o " : (vtbl=" \o Hex(vt, 8) \o ")")>>
    ELSE <<>>

\* an "@add" line with the first addition of a table, slot 0 included
AddLineAtZero(vt, i, parent, seen) ==
    IF parent = 0 /\ ~seen
    THEN <<Line("add", vt, i, 0, "", "", "", "    // @add")>>
    ELSE <<>>

\* the "@add" line, printed with the first addition of a table unless it is slot 0
AddLine(vt, i, parent, seen) ==
    IF parent = 0 /\ ~seen /\ i > 0
    THEN <<Line("add", vt, i, 0, "", "", "", "    // @add")>>
    ELSE <<>>

\* GetObjectClassName is called only for the "@override" line
OverrideClassName(m, nm, b, parent, printed, fo) ==
    IF parent # 0 /\ ~printed THEN GetObjectClassName(m, nm, b, parent, fo) ELSE Named("")

PVUnchanged == UNCHANGED <<baseAddr, mem, names, msgs, lastMsg, vtblMap, si, sj, sk, pCol,
                           recorded, passStart, prevMap, prevLog, dfn, vmSlot,
                   bindNativeMethod_Orig, binds, dres, dline, hcall, reads>>

OpenLine == Text("open", "/*==============================================================================")

CloseLine == Text("close", "==============================================================================*/")

\* for (auto& n : vtblMap): the next key in ascending order, and its
\* hierarchy block
PV_Type ==
    /\ pc = "pv_type"
    /\ keys # {}
    /\ \E fo \in ForeignOutcomes, type_addr \in {Min(keys)} :
         \E dump \in {DumpObjectClassHierarchy(mem, names, baseAddr,
                                               Head(vtblMap[type_addr]), fo)} :
             /\ keys' = keys \ {type_addr}
             /\ tables' = vtblMap[type_addr]
             /\ IF dump.fault
                THEN /\ pc' = "crashed"
                     /\ log' = Append(log, OpenLine)
                ELSE /\ pc' = "pv_table"
                     /\ log' = log \o <<OpenLine,
                                        Line("hier", Head(vtblMap[type_addr]), 0, 0, "", "",
                                             "", dump.str),
                                        CloseLine>>
    /\ UNCHANGED <<vtbl, vtparent, bOverride, bAdd, idx, passes>>
    /\ PVUnchanged

\* the map is exhausted: PrintVirtuals and the handler return
PV_Return ==
    /\ pc = "pv_type"
    /\ keys = {}
    /\ pc' = "idle"
    /\ passes' = passes + 1
    /\ UNCHANGED <<keys, tables, vtbl, vtparent, bOverride, bAdd, idx, log>>
    /\ PVUnchanged

\* for (auto vtbl : vtblList): the next table and its parent
PV_Table ==
    /\ pc = "pv_table"
    /\ tables # <<>>
    /\ \E parent \in {GetParentVtbl(mem, baseAddr, vtblMap, Head(tables))} :
           /\ vtbl' = Head(tables)
           /\ tables' = Tail(tables)
           /\ bOverride' = FALSE
           /\ bAdd' = FALSE
           /\ vtparent' = parent.val
           /\ idx' = 0
           /\ pc' = IF parent.fault THEN "crashed" ELSE "pv_slot"
    /\ UNCHANGED <<keys, log, passes>>
    /\ PVUnchanged

\* the list is exhausted: the empty line after the type
PV_TypeEnd ==
    /\ pc = "pv_table"
    /\ tables = <<>>
    /\ log' = Append(log, Text("blank", ""))
    /\ pc' = "pv_type"
    /\ UNCHANGED <<keys, tables, vtbl, vtparent, bOverride, bAdd, idx, passes>>
    /\ PVUnchanged

\* vtbl[i] does not point into .text: the slot loop ends
PV_TableEnd ==
    /\ pc = "pv_slot"
    /\ ~InText(baseAddr, Slot(mem, vtbl, idx))
    /\ pc' = "pv_table"
    /\ UNCHANGED <<keys, tables, vtbl, vtparent, bOverride, bAdd, idx, log, passes>>
    /\ PVUnchanged

\* vtbl[i] == vtparent[i]: continue
PV_SlotSkip ==
    /\ pc = "pv_slot"
    /\ InText(baseAddr, Slot(mem, vtbl, idx))
    /\ SlotInherited(mem, baseAddr, vtbl, vtparent, idx)
    /\ idx' = idx + 1
    /\ UNCHANGED <<pc, keys, tables, vtbl, vtparent, bOverride, bAdd, log, passes>>
    /\ PVUnchanged

\* the slot is rendered
PV_SlotPrint ==
    /\ pc = "pv_slot"
    /\ InText(baseAddr, Slot(mem, vtbl, idx))
    /\ ~SlotInherited(mem, baseAddr, vtbl, vtparent, idx)
    /\ \E fo \in ForeignOutcomes, v \in {Slot(mem, vtbl, idx)},
          parent \in {ParentAfter(mem, baseAddr, vtparent, idx)} :
         \E sig \in {SlotSignature(mem, names, baseAddr, v, fo)},
            cls \in {OverrideClassName(mem, names, baseAddr, parent, bOverride, fo)} :
             IF sig.fault \/ cls.fault
             THEN /\ pc' = "crashed"
                  /\ UNCHANGED <<vtparent, bOverride, bAdd, idx, log>>
             ELSE /\ pc' = pc
                  /\ vtparent' = parent
                  /\ bOverride' = (bOverride \/ parent # 0)
                  /\ bAdd' = (bAdd \/ parent = 0)
                  /\ log' = log \o OverrideLine(vtbl, idx, parent, bOverride, cls)
                            \o AddLine(vtbl, idx, parent, bAdd)
                            \o <<Line("slot", vtbl, idx, parent, sig.ret, sig.params,
                                      sig.body, SlotText(idx, v, parent, sig))>>
                  /\ idx' = idx + 1
    /\ UNCHANGED <<keys, tables, vtbl, passes>>
    /\ PVUnchanged

(***************************************************************************)
(* HandleSKSEMessage (main.cpp).  The section rows of the module summary   *)
(* come from the PE headers, which the images do not hold.                 *)
(***************************************************************************)
MessageTypes == {"kMessage_DataLoaded", "kMessage_PostLoad"}

ModuleSummary(b) ==
    <<Text("summary", "------------------------------ MODULE SUMMARY ----------------------------------"),
      Text("summary", "Base address: 0x" \o Hex(b, 8)),
      Text("summary", "Sections:"),
      Text("summary", "--------------------------------------------------------------------------------")>>

\* the lines of the current pass
PassLines == SubSeq(log, passStart + 1, Len(log))

\* a message of another type: return
HandleSKSEMessage_Other ==
    /\ pc = "idle"
    /\ \E type \in MessageTypes : type # "kMessage_DataLoaded" /\ lastMsg' = type
    /\ UNCHANGED <<baseAddr, mem, names, pc, msgs, vtblMap, si, sj, sk, pCol, keys, tables,
                   vtbl, vtparent, bOverride, bAdd, idx, log, recorded, passStart,
                   prevMap, prevLog, passes, dfn, vmSlot,
                   bindNativeMethod_Orig, binds, dres, dline, hcall, reads>>

\* a handler that keeps its map from one message to the next
HandleSKSEMessage_DataLoadedStaticMap ==
    /\ pc = "idle"
    /\ msgs < MaxMessages
    /\ msgs' = msgs + 1
    /\ lastMsg' = "kMessage_DataLoaded"
    /\ log' = log \o ModuleSummary(baseAddr)
    /\ passStart' = Len(log)
    /\ prevMap' = vtblMap
    /\ prevLog' = PassLines
    /\ recorded' = <<>>
    /\ si' = baseAddr + DATA_SEG_BEGIN
    /\ pc' = "scan_i"
    /\ UNCHANGED <<baseAddr, mem, names, vtblMap, sj, sk, pCol, keys, tables, vtbl,
                   vtparent, bOverride, bAdd, idx, passes, dfn, vmSlot,
                   bindNativeMethod_Orig, binds, dres, dline, hcall, reads>>

\* kMessage_DataLoaded: the summary, a fresh map, and LoadVTables starts
HandleSKSEMessage_DataLoaded ==
    /\ pc = "idle"
    /\ msgs < MaxMessages
    /\ msgs' = msgs + 1
    /\ lastMsg' = "kMessage_DataLoaded"
    /\ log' = log \o ModuleSummary(baseAddr)
    /\ passStart' = Len(log)
    /\ prevMap' = vtblMap
    /\ prevLog' = PassLines
    /\ vtblMap' = <<>>
    /\ recorded' = <<>>
    /\ si' = baseAddr + DATA_SEG_BEGIN
    /\ pc' = "scan_i"
    /\ UNCHANGED <<baseAddr, mem, names, sj, sk, pCol, keys, tables, vtbl, vtparent,
                   bOverride, bAdd, idx, passes, dfn, vmSlot,
                   bindNativeMethod_Orig, binds, dres, dline, hcall, reads>>

(***************************************************************************)
(* The pass over an image.                                                 *)
(***************************************************************************)
\* no call of the hierarchy run
NoCall == [vtbl |-> 0, before |-> HierarchyLocals, after |-> HierarchyLocals,
           success |-> FALSE, text |-> ""]

\* the locals of PrintVirtuals line 194-196 before the decompiler is called
Placeholders == [ret |-> "????  ", params |-> "????", body |-> ""]

Init ==
    /\ baseAddr = EXAMPLE_BASE
    /\ \E p \in ImageParams : mem = Image(EXAMPLE_BASE, p)
    /\ names = ImageNames(EXAMPLE_BASE)
    /\ pc = "idle"
    /\ msgs = 0
    /\ lastMsg = ""
    /\ vtblMap = <<>>
    /\ si = 0 /\ sj = 0 /\ sk = 0 /\ pCol = 0
    /\ keys = {}
    /\ tables = <<>>
    /\ vtbl = 0 /\ vtparent = 0 /\ bOverride = FALSE /\ bAdd = FALSE /\ idx = 0
    /\ log = <<>>
    /\ recorded = <<>>
    /\ passStart = 0
    /\ prevMap = <<>>
    /\ prevLog = <<>>
    /\ passes = 0
    /\ dfn = 0
    /\ dres = Placeholders
    /\ dline = ""
    /\ hcall = NoCall
    /\ reads = {}
    /\ vmSlot = 0
    /\ bindNativeMethod_Orig = 0
    /\ binds = <<>>

Next ==
    \/ HandleSKSEMessage_Other
    \/ HandleSKSEMessage_DataLoaded
    \/ LV_Descriptor
    \/ LV_Return
    \/ LV_LocatorReject
    \/ LV_LocatorAccept
    \/ LV_LocatorEnd
    \/ LV_TableAccept
    \/ LV_TableReject
    \/ LV_TableEnd
    \/ PV_Type
    \/ PV_Return
    \/ PV_Table
    \/ PV_TypeEnd
    \/ PV_TableEnd
    \/ PV_SlotSkip
    \/ PV_SlotPrint

Spec == Init /\ [][Next]_vars

(***************************************************************************)
(* The decompiler on its own: one function of two instructions at          *)
(* funcAddr, decompiled once into outputs that hold the caller's values,   *)
(* and rendered once as PrintVirtuals renders slot 0 of a table without    *)
(* parent.                                                                 *)
(***************************************************************************)
\* largest operand of "retn imm16" tried in sequence from 0
MaxImm == 24

\* operands of "retn imm16": the small ones, and some that use the high byte
RetImms == (0..MaxImm) \cup {255, 256, 1000, 4096, 65532, 65535}

\* displacements of the field loads
Disp8s == 0..255

\* sign extension of a disp8 to the four bytes of a disp32
Disp32Bytes(d) == IF d < 128 THEN <<d, 0, 0, 0>> ELSE <<d, 255, 255, 255>>

\* first instructions: every idiom of the decompiler, and near misses
Openings ==
    { <<>>, <<50, 192>>, <<51, 192>>, <<131, 200, 255>>, <<15, 87, 192>>, <<72, 139, 193>>,
      <<50, 193>>, <<51, 193>>, <<131, 200, 254>>, <<15, 87, 193>>, <<72, 139, 192>>,
      <<138, 192>>, <<72, 141, 0, 0>>, <<144>>, <<85>>,
      <<184, 0, 16, 95, 65>> }
    \cup { <<176, imm>> : imm \in 0..255 }
    \cup { <<138, 65, d>> : d \in Disp8s }
    \cup { <<138, 129>> \o Disp32Bytes(d) : d \in Disp8s }
    \cup { <<72, 139, 65, d>> : d \in Disp8s }
    \cup { <<72, 139, 129>> \o Disp32Bytes(d) : d \in Disp8s }
    \cup { <<72, 141, 65, d>> : d \in Disp8s }
    \cup { <<72, 141, 129>> \o Disp32Bytes(d) : d \in Disp8s }

\* second instructions: retn, retn 8, and three that are no return
BasicTails == { <<195>>, <<194, 8, 0>>, <<144>>, <<204>>, <<0>> }

RetnTails == { <<194, imm % 256, imm \div 256>> : imm \in RetImms }

Functions ==
    { o \o t : o \in Openings, t \in BasicTails }
    \cup { o \o t : o \in { <<>>, <<51, 192>>, <<176, 7>> }, t \in RetnTails }

\* values of retOut, paramsOut and bodyOut on entry
CallerValues == { Placeholders, [ret |-> "r", params |-> "p", body |-> "b"] }

InitD ==
    /\ baseAddr = EXAMPLE_BASE
    /\ dfn = EXAMPLE_BASE + FuncOff(1)
    /\ \E code \in Functions : mem = WBytes(EXAMPLE_BASE + FuncOff(1), code)
    /\ names = <<>>
    /\ pc = "decompile"
    /\ dres \in CallerValues
    /\ dline = ""
    /\ hcall = NoCall
    /\ reads = {}
    /\ vmSlot = 0
    /\ bindNativeMethod_Orig = 0
    /\ binds = <<>>
    /\ msgs = 0
    /\ lastMsg = ""
    /\ vtblMap = <<>>
    /\ si = 0 /\ sj = 0 /\ sk = 0 /\ pCol = 0
    /\ keys = {}
    /\ tables = <<>>
    /\ vtbl = 0 /\ vtparent = 0 /\ bOverride = FALSE /\ bAdd = FALSE /\ idx = 0
    /\ log = <<>>
    /\ recorded = <<>>
    /\ passStart = 0
    /\ prevMap = <<>>
    /\ prevLog = <<>>
    /\ passes = 0

\* SimpleFunctionDecompiler(funcAddr, ret, params, body, baseAddr), and the
\* line of PrintVirtuals for a slot that holds funcAddr
Decompile ==
    /\ pc = "decompile"
    /\ \E fo \in ForeignOutcomes :
        \E out \in {SimpleFunctionDecompiler(mem, names, baseAddr, dfn, dres.ret,
                                             dres.params, dres.body, fo)},
           sig \in {SlotSignature(mem, names, baseAddr, Ptr(dfn), fo)} :
            /\ dres' = [ret |-> out.ret, params |-> out.params, body |-> out.body]
            /\ dline' = SlotText(0, Ptr(dfn), 0, sig)
            /\ pc' = IF out.fault THEN "crashed" ELSE "returned"
    /\ UNCHANGED <<baseAddr, mem, names, msgs, lastMsg, vtblMap, si, sj, sk, pCol, keys, tables,
                   vtbl, vtparent, bOverride, bAdd, idx, log, recorded, passStart,
                   prevMap, prevLog, passes, dfn, vmSlot,
                   bindNativeMethod_Orig, binds, hcall, reads>>

NextD == Decompile

SpecD == InitD /\ [][NextD]_vars

(***************************************************************************)
(* The hierarchy decoder on its own: GetTypeHierarchyInfo and              *)
(* DumpObjectClassHierarchy are applied to a table address of an image     *)
(* that holds, besides the structures of the scan, one table whose meta    *)
(* word leads to memory that cannot be read in full.                       *)
(***************************************************************************)
\* the meta word of the stray table
StrayOff == RDATA_SEG_BEGIN + 2048

\* the stray table: its locator lies outside the module ("locator"), names
\* a descriptor outside the module ("type"), or lies across the last
\* ("end") or the first ("start") byte of the module
StrayKinds == {"locator", "type", "end", "start"}

Stray(b, kind) ==
    IF kind = "locator" THEN W64(b + StrayOff, b + BadOff)
    ELSE IF kind = "type"
    THEN W64(b + StrayOff, b + StrayOff + 32) @@ W32(b + StrayOff + 32, COL_SIG_REV1)
         @@ W32(b + StrayOff + 44, BadOff) @@ W32(b + StrayOff + 48, ChdOff(1))
    ELSE IF kind = "end"
    THEN W64(b + StrayOff, b + DATA_SEG_END - 16) @@ W32(b + DATA_SEG_END - 16, COL_SIG_REV1)
         @@ W32(b + DATA_SEG_END - 12, 8) @@ W32(b + DATA_SEG_END - 4, TDOff(1))
    ELSE W64(b + StrayOff, b - 8) @@ W32(b + 4, TDOff(1)) @@ W32(b + 8, ChdOff(1))

HierarchyParams ==
    [tag : BOOLEAN, ctype : {FixedType}, coff : {FixedOffset},
     defect : {"none", "chd"}, mdisp : {0}, shape : {"chain", "tree"},
     slots : {[c \in Cols |-> <<FuncOff(1)>>]}]

\* the table addresses handed to the decoder
HierarchyTables(b) ==
    {b + MetaOff(c) + 8 : c \in Cols} \cup {b + StrayOff + 8, b + BadOff}

\* the caller's name, offset and hierarchy before the call
HierarchyCallers == {HierarchyLocals, [name |-> "?", offset |-> 77, hierarchy |-> 1]}

InitH ==
    /\ baseAddr = EXAMPLE_BASE
    /\ \E p \in HierarchyParams, kind \in StrayKinds :
          mem = Image(EXAMPLE_BASE, p) @@ Stray(EXAMPLE_BASE, kind)
    /\ names = ImageNames(EXAMPLE_BASE)
    /\ pc = "dump"
    /\ \E vt \in HierarchyTables(EXAMPLE_BASE), out \in HierarchyCallers :
          hcall = [vtbl |-> vt, before |-> out, after |-> out, success |-> FALSE,
                   text |-> ""]
    /\ dfn = 0
    /\ dres = Placeholders
    /\ dline = ""
    /\ reads = {}
    /\ vmSlot = 0
    /\ bindNativeMethod_Orig = 0
    /\ binds = <<>>
    /\ msgs = 0
    /\ lastMsg = ""
    /\ vtblMap = <<>>
    /\ si = 0 /\ sj = 0 /\ sk = 0 /\ pCol = 0
    /\ keys = {}
    /\ tables = <<>>
    /\ vtbl = 0 /\ vtparent = 0 /\ bOverride = FALSE /\ bAdd = FALSE /\ idx = 0
    /\ log = <<>>
    /\ recorded = <<>>
    /\ passStart = 0
    /\ prevMap = <<>>
    /\ prevLog = <<>>
    /\ passes = 0

\* GetTypeHierarchyInfo(vtbl, name, offset, hierarchy, baseAddr) on the
\* caller's variables, and DumpObjectClassHierarchy(vtbl, false, baseAddr)
DumpHierarchy ==
    /\ pc = "dump"
    /\ \E fo \in ForeignOutcomes :
        \E info \in {GetTypeHierarchyInfo(mem, names, baseAddr, hcall.vtbl,
                                          hcall.before, fo)},
           dump \in {DumpObjectClassHierarchy(mem, names, baseAddr, hcall.vtbl, fo)} :
            /\ hcall' = [hcall EXCEPT !.after = [name |-> info.name,
                                                 offset |-> info.offset,
                                                 hierarchy |-> info.hierarchy],
                                      !.success = info.success,
                                      !.text = dump.str]
            /\ pc' = IF dump.fault THEN "crashed" ELSE "returned"
    /\ UNCHANGED <<baseAddr, mem, names, msgs, lastMsg, vtblMap, si, sj, sk, pCol, keys, tables,
                   vtbl, vtparent, bOverride, bAdd, idx, log, recorded, passStart,
                   prevMap, prevLog, passes, dfn, vmSlot,
                   bindNativeMethod_Orig, binds, dres, dline, reads>>

NextH == DumpHierarchy

SpecH == InitH /\ [][NextH]_vars

(***************************************************************************)
(* dump_functions (main.cpp): the plugin that redirects the                *)
(* BindNativeMethod slot of the VirtualMachine dispatch table to a hook    *)
(* that logs every native function the game binds.  The game may call      *)
(* through the slot at any moment: before the plugin is loaded, while      *)
(* InstallHook runs, and afterwards.                                       *)
(***************************************************************************)
\* offset of the slot in the executable
BIND_NATIVE_METHOD_VFT_OFFSET == 26522008
\* offset of the function the slot holds before it is redirected
BIND_NATIVE_METHOD_OFFSET == 20427888
\* &bindNativeMethod_Hook, an address in the plugin
HOOK_ADDR == 1610616832
\* kType_ArraysEnd of enum BSScriptType
kType_ArraysEnd == 16

\* most calls the game makes through the slot
MaxBinds == 2

\* %x
RECURSIVE LowerHexStr(_)
LowerHexStr(n) ==
    IF n < 16 THEN SubSeq("0123456789abcdef", n + 1, n + 1)
    ELSE LowerHexStr(n \div 16) \o SubSeq("0123456789abcdef", (n % 16) + 1, (n % 16) + 1)

\* %#010x: the prefix 0x counts for the width, and zero has no prefix
PrefixedHex(n) ==
    IF n = 0 THEN "0000000000"
    ELSE "0x" \o Fill("0", 8 - Len(LowerHexStr(n))) \o LowerHexStr(n)

\* the NativeFunction objects the game binds: what the IFunction interface
\* returns for each, and the callback stored at offset 0x50
NativeFunctions ==
    { [addr |-> 268435456, class |-> "Game", name |-> "GetFormCount", type |-> 3,
       event |-> FALSE, params |-> <<>>, static |-> TRUE, native |-> TRUE,
       callback |-> EXAMPLE_BASE + FuncOff(1)],
      [addr |-> 268435712, class |-> "Actor", name |-> "SetAlpha", type |-> 0,
       event |-> FALSE,
       params |-> <<[name |-> "afTargetAlpha", type |-> 4], [name |-> "abFade", type |-> 5]>>,
       static |-> FALSE, native |-> TRUE, callback |-> EXAMPLE_BASE + FuncOff(2)],
      [addr |-> 268435968, class |-> "Form", name |-> "OnHit", type |-> 13,
       event |-> TRUE, params |-> <<[name |-> "akTarget", type |-> 17]>>,
       static |-> FALSE, native |-> FALSE, callback |-> 0] }

\* the VirtualMachine objects whose method is called
VirtualMachines == {536870912, 536871168}

\* GetUnmangledType (BSScriptVariable.h)
GetUnmangledType(type) ==
    IF type < kType_ArraysEnd THEN type ELSE IF type % 2 = 1 THEN 11 ELSE 1

\* BSScriptTypeToString; the class of an object type has no name here
BSScriptTypeToString(type) ==
    LET single == GetUnmangledType(type)
        bIsArray == single > 10
        singleType == IF bIsArray THEN single - 10 ELSE single
        typeName == CASE singleType = 0 -> "None"
                      [] singleType = 1 -> "None"
                      [] singleType = 2 -> "String"
                      [] singleType = 3 -> "Int"
                      [] singleType = 4 -> "Float"
                      [] singleType = 5 -> "Bool"
                      [] OTHER -> "Unknown"
    IN  typeName \o (IF bIsArray THEN "[]" ELSE "")

\* the parameters i.. of FunctionToString
RECURSIVE ParamsToString(_, _)
ParamsToString(params, i) ==
    IF i > Len(params) THEN ""
    ELSE (IF i # 1 THEN ", " ELSE "")
         \o BSScriptTypeToString(params[i].type) \o " " \o params[i].name
         \o ParamsToString(params, i + 1)

\* FunctionToString (BSScriptFunction.h)
FunctionToString(fn) ==
    (IF fn.type # 0 THEN BSScriptTypeToString(fn.type) \o " " ELSE "")
    \o (IF fn.event THEN "Event " ELSE "Function ")
    \o fn.name \o "(" \o ParamsToString(fn.params, 1) \o ")"
    \o (IF fn.static THEN " global" ELSE "")
    \o (IF fn.native THEN " native" ELSE "")

\* the line bindNativeMethod_Hook writes for fn
HookLine(fn) ==
    Text("bind", "<" \o fn.class \o "> " \o FunctionToString(fn)
                 \o " (" \o PrefixedHex(fn.addr) \o ") callback=" \o PrefixedHex(fn.callback))

\* a call of the function at address target
CallOf(target, thisObj, fn) == [target |-> target, thisObj |-> thisObj, fn |-> fn]

\* a hook that logs and returns
ForwardedCallsNone(orig, thisObj, fn) == <<>>

\* the last statement of bindNativeMethod_Hook: the calls it makes
ForwardedCalls(orig, thisObj, fn) == <<CallOf(orig, thisObj, fn)>>

\* a call through the slot: how it was entered, the lines it wrote, the
\* calls it made and the number of lines in the log when it made them
Bind(slot, thisObj, fn, lines, calls, logged) ==
    [slot |-> slot, thisObj |-> thisObj, fn |-> fn, lines |-> lines, calls |-> calls,
     logged |-> logged]

FUnchanged == UNCHANGED <<mem, names, msgs, lastMsg, vtblMap, si, sj, sk, pCol, keys, tables,
                          vtbl, vtparent, bOverride, bAdd, idx, recorded, passStart,
                          prevMap, prevLog, passes, dfn, dres, dline, hcall, reads>>

InitF ==
    /\ baseAddr = 0
    /\ mem = <<>>
    /\ names = <<>>
    /\ pc = "load"
    /\ vmSlot = EXAMPLE_BASE + BIND_NATIVE_METHOD_OFFSET
    /\ bindNativeMethod_Orig = 0
    /\ binds = <<>>
    /\ msgs = 0
    /\ lastMsg = ""
    /\ vtblMap = <<>>
    /\ si = 0 /\ sj = 0 /\ sk = 0 /\ pCol = 0
    /\ keys = {}
    /\ tables = <<>>
    /\ vtbl = 0 /\ vtparent = 0 /\ bOverride = FALSE /\ bAdd = FALSE /\ idx = 0
    /\ log = <<>>
    /\ recorded = <<>>
    /\ passStart = 0
    /\ prevMap = <<>>
    /\ prevLog = <<>>
    /\ passes = 0
    /\ dfn = 0
    /\ dres = Placeholders
    /\ dline = ""
    /\ hcall = NoCall
    /\ reads = {}

\* SKSEPlugin_Load in the editor: the plugin is marked incompatible
SKSEPlugin_Load_Editor ==
    /\ pc = "load"
    /\ log' = Append(log, Text("load", "loaded in editor, marking as incompatible"))
    /\ pc' = "refused"
    /\ UNCHANGED <<baseAddr, vmSlot, bindNativeMethod_Orig, binds>>
    /\ FUnchanged

\* SKSEPlugin_Load in the game, up to the call of InstallHook
SKSEPlugin_Load ==
    /\ pc = "load"
    /\ log' = log \o
         <<Text("load", "=================== SkyRETK dump_functions: SKSEPlugin_Load ===================="),
           Text("load", "Nox Sidereum's update of Himika's code at https://github.com/himika/libSkyrim."),
           Text("load", "Currently only works for GOG Skyrim 1.6.659 because the offsets are hardcoded.")>>
    /\ pc' = "install"
    /\ UNCHANGED <<baseAddr, vmSlot, bindNativeMethod_Orig, binds>>
    /\ FUnchanged

\* InstallHook up to SafeWrite64: the slot is read into bindNativeMethod_Orig
InstallHook_Save ==
    /\ pc = "install"
    /\ baseAddr' = EXAMPLE_BASE
    /\ bindNativeMethod_Orig' = vmSlot
    /\ log' = log \o
         <<Text("install", "Installing hook..."),
           Text("install", "  1. Module base address: " \o PrefixedHex(EXAMPLE_BASE) \o "."),
           Text("install", "  2. Redirecting VM->BindNativeMethod VFT pointer at "
                           \o PrefixedHex(EXAMPLE_BASE + BIND_NATIVE_METHOD_VFT_OFFSET) \o "."),
           Text("install", "  3. Before hooking, it points to " \o PrefixedHex(vmSlot) \o ".")>>
    /\ pc' = "hooking"
    /\ UNCHANGED <<vmSlot, binds>>
    /\ FUnchanged

\* SafeWrite64 and the rest of InstallHook and of SKSEPlugin_Load
InstallHook_Write ==
    /\ pc = "hooking"
    /\ vmSlot' = HOOK_ADDR
    /\ log' = log \o
         <<Text("install", "  4. After hooking, it points to " \o PrefixedHex(HOOK_ADDR) \o "."),
           Text("install", "done."),
           Text("load", "Output line format is:   <1> 2 (3) callback=4"),
           Text("load", "where:"),
           Text("load", "  1 = class"),
           Text("load", "  2 = [<type>] 'Function' <identifier> '(' [<parameters>] ')' ('global' | 'native')*"),
           Text("load", "  3 = address of NativeFunction object on the heap"),
           Text("load", "  4 = address of the function in the Skyrim executable image that will be"),
           Text("load", "      invoked whenever the NativeFunction object is run."),
           Text("load", "More detail at https://www.creationkit.com/index.php?title=Function_Reference."),
           Text("load", "See https://www.creationkit.com/index.php?title=List_of_Papyrus_Functions for"),
           Text("load", "descriptions of what the different functions do."),
           Text("load", "================================================================================")>>
    /\ pc' = "loaded"
    /\ UNCHANGED <<baseAddr, bindNativeMethod_Orig, binds>>
    /\ FUnchanged

\* the game calls through the slot while it holds the original function
BindNativeMethod ==
    /\ pc # "crashed"
    /\ Len(binds) < MaxBinds
    /\ vmSlot # HOOK_ADDR
    /\ \E thisObj \in VirtualMachines, fn \in NativeFunctions :
          binds' = Append(binds, Bind(vmSlot, thisObj, fn.addr, <<>>,
                                      <<CallOf(vmSlot, thisObj, fn.addr)>>, Len(log)))
    /\ UNCHANGED <<baseAddr, pc, vmSlot, bindNativeMethod_Orig, log>>
    /\ FUnchanged

\* the game calls through the slot while it holds the hook
bindNativeMethod_Hook ==
    /\ pc # "crashed"
    /\ Len(binds) < MaxBinds
    /\ vmSlot = HOOK_ADDR
    /\ \E thisObj \in VirtualMachines, fn \in NativeFunctions :
         \E calls \in {ForwardedCalls(bindNativeMethod_Orig, thisObj, fn.addr)} :
            /\ log' = Append(log, HookLine(fn))
            /\ binds' = Append(binds, Bind(vmSlot, thisObj, fn.addr, <<HookLine(fn)>>,
                                           calls, Len(log) + 1))
            /\ pc' = IF \E c \in 1..Len(calls) : calls[c].target = 0 THEN "crashed" ELSE pc
    /\ UNCHANGED <<baseAddr, vmSlot, bindNativeMethod_Orig>>
    /\ FUnchanged

NextF ==
    \/ SKSEPlugin_Load_Editor
    \/ SKSEPlugin_Load
    \/ InstallHook_Save
    \/ InstallHook_Write
    \/ BindNativeMethod
    \/ bindNativeMethod_Hook

SpecF == InitF /\ [][NextF]_vars

(***************************************************************************)
(* Properties of LoadVTables.                                              *)
(***************************************************************************)
\* the locator a table's meta word points to, and the offset field of it
LocatorOf(t) == U64(mem, t - 8)[1]
OffsetOf(t) == U32(mem, LocatorOf(t) + 4)

\* LoadVTables has just returned
LoadVTablesReturned == pc = "pv_type" /\ keys = DOMAIN vtblMap

\* LoadVTables has returned and its map has not been discarded yet
ScanDone == pc \in {"pv_type", "pv_table", "pv_slot", "crashed"}
            \/ (pc = "idle" /\ passes > 0)

\* C1: at every moment every list of the map is primary-first: no table whose
\* locator has offset # 0 stands before a table whose locator has offset = 0.
C1_PrimaryFirst ==
    \A key \in DOMAIN vtblMap :
        \A x, y \in 1..Len(vtblMap[key]) :
            (OffsetOf(vtblMap[key][x]) # 0 /\ OffsetOf(vtblMap[key][y]) = 0) => y < x

\* a list that received a primary table after a secondary one
C1_Witness ==
    \E x, y \in 1..Len(recorded) :
        /\ x < y
        /\ recorded[x].key = recorded[y].key
        /\ ~recorded[x].front /\ recorded[y].front
        /\ Len(vtblMap[recorded[x].key]) >= 2

\* the well-formed triples of the image, read off the memory
WellFormedDescriptors ==
    {d \in DOMAIN mem :
        /\ baseAddr + DATA_SEG_BEGIN <= d /\ d + 8 <= baseAddr + DATA_SEG_END
        /\ d % 8 = 0
        /\ U64(mem, d) = <<baseAddr + TYPE_INFO_VTBL, 0>>}
WellFormedLocators(d) ==
    {c \in {a - 12 : a \in DOMAIN mem} :
        /\ baseAddr + RDATA_SEG_BEGIN <= c + 12 /\ c + 16 <= baseAddr + RDATA_SEG_END
        /\ (c + 12) % 4 = 0
        /\ U32(mem, c) = 1
        /\ U32(mem, c + 8) = 0
        /\ U32(mem, c + 12) = d - baseAddr}
WellFormedTables(c) ==
    {k + 8 : k \in {a \in DOMAIN mem :
        /\ baseAddr + RDATA_SEG_BEGIN <= a /\ a + 8 <= baseAddr + RDATA_SEG_END
        /\ a % 8 = 0
        /\ U64(mem, a) = <<c, 0>>
        /\ U64(mem, a + 8)[2] = 0
        /\ baseAddr + TEXT_SEG_BEGIN <= U64(mem, a + 8)[1]
        /\ U64(mem, a + 8)[1] < baseAddr + TEXT_SEG_END}}
WellFormedTriples ==
    {<<d, c, t>> \in UNION {UNION {{<<d, c, t>> : t \in WellFormedTables(c)} :
                                    c \in WellFormedLocators(d)} :
                            d \in WellFormedDescriptors} : TRUE}

\* C2: when LoadVTables returns, the table of every well-formed triple
\* is in the list kept under the address of the triple's descriptor, and the
\* map has at least as many keys as the triples have distinct descriptors.
C2_Complete ==
    LoadVTablesReturned =>
        /\ \A w \in WellFormedTriples :
             /\ w[1] \in DOMAIN vtblMap
             /\ \E x \in 1..Len(vtblMap[w[1]]) : vtblMap[w[1]][x] = w[3]
        /\ Cardinality(DOMAIN vtblMap) >= Cardinality({w[1] : w \in WellFormedTriples})

\* an image with two descriptors, one of them with two locators, all scanned
C2_Witness ==
    /\ LoadVTablesReturned
    /\ Cardinality({w[1] : w \in WellFormedTriples}) >= 2
    /\ \E v, w \in WellFormedTriples : v[1] = w[1] /\ v[2] # w[2]

\* the checks of LoadVTables on the table t kept under key
SoundEntry(key, t) ==
    /\ U64(mem, t - 8)[2] = 0
    /\ U32(mem, LocatorOf(t)) = 1
    /\ U32(mem, LocatorOf(t) + 8) = 0
    /\ baseAddr + U32(mem, LocatorOf(t) + 12) = key
    /\ baseAddr + DATA_SEG_BEGIN <= key /\ key < baseAddr + DATA_SEG_END
    /\ U64(mem, key) = <<baseAddr + TYPE_INFO_VTBL, 0>>
    /\ U64(mem, t)[2] = 0
    /\ baseAddr + TEXT_SEG_BEGIN <= U64(mem, t)[1]
    /\ U64(mem, t)[1] < baseAddr + TEXT_SEG_END
SoundMap == \A key \in DOMAIN vtblMap :
                \A x \in 1..Len(vtblMap[key]) : SoundEntry(key, vtblMap[key][x])

\* the tables of a map, with their keys
Entries(map) == UNION {{<<key, map[key][x]>> : x \in 1..Len(map[key])} : key \in DOMAIN map}

\* C3: every table in the map passed all the checks of LoadVTables (the
\* memory never changes, so it is enough that the map passes them whenever
\* a step has changed it), and a step of the scan that adds no table leaves
\* the map as it was, writes nothing to the log and does not stop the scan.
C3_Sound ==
    [][/\ vtblMap' # vtblMap => SoundMap'
       /\ (pc \in {"scan_i", "scan_j", "scan_k"} /\ Entries(vtblMap') = Entries(vtblMap))
             => (vtblMap' = vtblMap /\ log' = log /\ pc' # "crashed")]_vars

\* a scan that dropped a candidate locator and a candidate table and kept another
C3_Witness ==
    /\ ScanDone
    /\ DOMAIN vtblMap # {}
    /\ \E c \in Cols : /\ U32(mem, baseAddr + ColOff(c)) # 1
                          \/ U32(mem, baseAddr + ColOff(c) + 8) # 0
                          \/ ~InText(baseAddr, U64(mem, baseAddr + MetaOff(c) + 8))
                       /\ \A e \in Entries(vtblMap) : e[2] # baseAddr + MetaOff(c) + 8

(***************************************************************************)
(* Properties of PrintVirtuals.                                            *)
(***************************************************************************)
\* a pass has run to its end
PassComplete == pc = "idle" /\ passes > 0

\* the number of slots PrintVirtuals sees in a table: the entries before the
\* first one that does not point into .text
RECURSIVE LengthFrom(_, _)
LengthFrom(t, i) ==
    IF baseAddr + TEXT_SEG_BEGIN <= U64(mem, t + 8 * i)[1]
       /\ U64(mem, t + 8 * i)[1] < baseAddr + TEXT_SEG_END
       /\ U64(mem, t + 8 * i)[2] = 0
    THEN LengthFrom(t, i + 1) ELSE i
TableLength(t) == LengthFrom(t, 0)

\* the slot lines of the current pass for slot i of table t
SlotLines(t, i) ==
    {n \in 1..Len(PassLines) :
        PassLines[n].tag = "slot" /\ PassLines[n].vtbl = t /\ PassLines[n].i = i}

\* the text of a line carries the override qualifier
HasOverride(str) ==
    \E k \in 1..Len(str) : k + 9 <= Len(str) /\ SubSeq(str, k, k + 9) = ") override"

\* slot i of the parent table p lies outside .text, or an earlier one does
ParentExhausted(p, i) ==
    \E j \in 0..i : ~(/\ baseAddr + TEXT_SEG_BEGIN <= U64(mem, p + 8 * j)[1]
                      /\ U64(mem, p + 8 * j)[1] < baseAddr + TEXT_SEG_END
                      /\ U64(mem, p + 8 * j)[2] = 0)

\* C4: after a pass, for every table with a resolved parent of the same
\* length: a slot equal to the parent's slot at the same index has no line,
\* and a slot that differs has exactly one line, which carries the override
\* qualifier and belongs to the resolved parent.
C4_EqualSuppressed ==
    PassComplete =>
        \A e \in Entries(vtblMap) :
            \A p \in {GetParentVtbl(mem, baseAddr, vtblMap, e[2]).val} :
                (p # 0 /\ TableLength(p) = TableLength(e[2])) =>
                    \A i \in 0..(TableLength(e[2]) - 1) :
                        IF U64(mem, e[2] + 8 * i) = U64(mem, p + 8 * i)
                        THEN SlotLines(e[2], i) = {}
                        ELSE /\ Cardinality(SlotLines(e[2], i)) = 1
                             /\ \A n \in SlotLines(e[2], i) :
                                  /\ PassLines[n].parent = p
                                  /\ HasOverride(PassLines[n].str)

\* a table as long as its parent, with a slot equal to the parent's and a
\* slot that differs from it
C4_Witness ==
    /\ PassComplete
    /\ \E e \in Entries(vtblMap) :
         \E p \in {GetParentVtbl(mem, baseAddr, vtblMap, e[2]).val} :
             /\ p # 0
             /\ TableLength(p) = TableLength(e[2])
             /\ \E i, j \in 0..(TableLength(e[2]) - 1) :
                  /\ U64(mem, e[2] + 8 * i) = U64(mem, p + 8 * i)
                  /\ U64(mem, e[2] + 8 * j) # U64(mem, p + 8 * j)
                  /\ SlotLines(e[2], j) # {}

\* C5: after a pass, for every table with a resolved parent: from the first
\* index at which the parent's slot lies outside .text, every slot of the
\* table has exactly one line, which is an addition (no parent, no override
\* qualifier), whatever the parent's later slots hold.
C5_AdditionsAfterParent ==
    PassComplete =>
        \A e \in Entries(vtblMap) :
            \A p \in {GetParentVtbl(mem, baseAddr, vtblMap, e[2]).val} :
                p # 0 =>
                    \A i \in 0..(TableLength(e[2]) - 1) :
                        ParentExhausted(p, i) =>
                            /\ Cardinality(SlotLines(e[2], i)) = 1
                            /\ \A n \in SlotLines(e[2], i) :
                                 /\ PassLines[n].parent = 0
                                 /\ ~HasOverride(PassLines[n].str)

\* a table whose parent has a hole, and after the hole a slot that points
\* into .text again and equals the table's slot at that index
C5_Witness ==
    /\ PassComplete
    /\ \E e \in Entries(vtblMap) :
         \E p \in {GetParentVtbl(mem, baseAddr, vtblMap, e[2]).val} :
             /\ p # 0
             /\ \E i \in 1..(TableLength(e[2]) - 1) :
                  /\ ParentExhausted(p, i - 1)
                  /\ U64(mem, e[2] + 8 * i) = U64(mem, p + 8 * i)
                  /\ SlotLines(e[2], i) # {}

(***************************************************************************)
(* Properties of SimpleFunctionDecompiler.                                 *)
(***************************************************************************)
\* the function at funcAddr starts with these bytes
CodeIs(bytes) == \A k \in 1..Len(bytes) : Byte(mem, dfn + k - 1) = bytes[k]

\* the three outputs
Outputs(ret, params, body) == [ret |-> ret, params |-> params, body |-> body]

\* a byte as two upper-case hexadecimal digits
TwoHexDigits(str, v) ==
    \E h, l \in 1..16 :
        /\ v = 16 * (h - 1) + (l - 1)
        /\ str = SubSeq("0123456789ABCDEF", h, h) \o SubSeq("0123456789ABCDEF", l, l)

\* C6: on the bytes B0 imm8 C3 the decompiler returns the parameters "void",
\* and bool / return false for imm8 = 0, bool / return true for imm8 = 1,
\* UInt8 / return 0x<two hex digits of imm8> for every other imm8.
C6_MovAlImm ==
    (pc = "returned" /\ Byte(mem, dfn) = 176 /\ Byte(mem, dfn + 2) = 195) =>
        /\ dres.params = "void"
        /\ Byte(mem, dfn + 1) = 0 => (dres.ret = "bool  " /\ dres.body = "{ return false; }")
        /\ Byte(mem, dfn + 1) = 1 => (dres.ret = "bool  " /\ dres.body = "{ return true; }")
        /\ Byte(mem, dfn + 1) > 1 =>
             /\ dres.ret = "UInt8 "
             /\ Len(dres.body) = 16
             /\ SubSeq(dres.body, 1, 11) = "{ return 0x"
             /\ TwoHexDigits(SubSeq(dres.body, 12, 13), Byte(mem, dfn + 1))
             /\ SubSeq(dres.body, 14, 16) = "; }"

\* B0 0A C3 has been decompiled
C6_Witness ==
    /\ pc = "returned"
    /\ CodeIs(<<176, 10, 195>>)
    /\ dres = Outputs("UInt8 ", "void", "{ return 0x0A; }")

\* C7: each fixed idiom followed by C3 gives its fixed result and the
\* parameters "void".
C7_FixedIdioms ==
    pc = "returned" =>
        /\ CodeIs(<<50, 192, 195>>) => dres = Outputs("bool  ", "void", "{ return false; }")
        /\ CodeIs(<<51, 192, 195>>) => dres = Outputs("UInt32", "void", "{ return 0; }")
        /\ CodeIs(<<131, 200, 255, 195>>) => dres = Outputs("Sint32", "void", "{ return -1; }")
        /\ CodeIs(<<15, 87, 192, 195>>) => dres = Outputs("float", "void", "{ return 0.0f; }")
        /\ CodeIs(<<72, 139, 193, 195>>) => dres = Outputs("void *", "void", "{ return this; }")

\* 32 C0 C3 has been decompiled
C7_Witness ==
    /\ pc = "returned"
    /\ CodeIs(<<50, 192, 195>>)
    /\ dres = Outputs("bool  ", "void", "{ return false; }")

\* the byte after the opening the decompiler consumed
ByteAfterOpening ==
    Byte(mem, dfn + ParseOpening(mem, names, baseAddr, dfn, "name").size)

\* C8: when the byte after the opening (of any length, zero included) is
\* neither C3 nor C2, a call that returns leaves its three outputs as they
\* were passed, and PrintVirtuals prints the slot with the placeholders and
\* without body.
C8_GiveUp ==
    [][(pc = "decompile" /\ pc' = "returned" /\ ByteAfterOpening \notin {195, 194}) =>
          /\ dres' = dres
          /\ dline' = "    virtual ????   Unk_000(????);"
                      \o "                                    " \o "// 40001000"]_vars

\* 33 C0 90 has been decompiled into outputs that held other values
C8_Witness ==
    /\ pc = "returned"
    /\ CodeIs(<<51, 192, 144>>)
    /\ dres = Outputs("r", "p", "b")

\* the trailing instruction is "retn imm16", and its operand
IsRetnImm == pc = "returned" /\ ByteAfterOpening = 194
RetnOperand ==
    Byte(mem, dfn + ParseOpening(mem, names, baseAddr, dfn, "name").size + 1)
    + 256 * Byte(mem, dfn + ParseOpening(mem, names, baseAddr, dfn, "name").size + 2)

\* reading decimal numerals
IsDigit(ch) == \E d \in 1..10 : SubSeq("0123456789", d, d) = ch
DigitValue(ch) == (CHOOSE d \in 1..10 : SubSeq("0123456789", d, d) = ch) - 1
RECURSIVE NumeralValue(_)
NumeralValue(str) ==
    IF str = "" THEN 0
    ELSE 10 * NumeralValue(SubSeq(str, 1, Len(str) - 1))
         + DigitValue(SubSeq(str, Len(str), Len(str)))
\* the position before the digits that end str at position k
RECURSIVE DigitsFrom(_, _)
DigitsFrom(str, k) ==
    IF k >= 1 /\ IsDigit(SubSeq(str, k, k)) THEN DigitsFrom(str, k - 1) ELSE k
TrailingNumeral(str) == SubSeq(str, DigitsFrom(str, Len(str)) + 1, Len(str))
IsNumeralOf(str, v) ==
    /\ str # ""
    /\ DigitsFrom(str, Len(str)) = 0
    /\ (Len(str) > 1 => SubSeq(str, 1, 1) # "0")
    /\ NumeralValue(str) = v

\* the number of places at which sub occurs in str
Occurrences(str, sub) ==
    Cardinality({k \in 1..Len(str) :
        k + Len(sub) - 1 <= Len(str) /\ SubSeq(str, k, k + Len(sub) - 1) = sub})

\* params is a list of n generically named 32-bit parameters
NamedParameters(params, n) ==
    IF n = 0 THEN params = "void" ELSE Occurrences(params, "UInt32 arg") = n

\* params gives a count of v as its trailing number
CountOf(params, v) ==
    TrailingNumeral(params) # "" /\ NumeralValue(TrailingNumeral(params)) = v

\* C9 as stated: for every N, a list of exactly N/4 named parameters when N
\* is a multiple of 4, and the byte count N otherwise.  The code violates it.
C9_AsStated ==
    IsRetnImm =>
        IF RetnOperand % 4 = 0
        THEN NamedParameters(dres.params, RetnOperand \div 4)
        ELSE CountOf(dres.params, RetnOperand)

\* C9 as the code has it: the named lists exist for N in {0, 4, 8, 12, 16}
\* only; for every other N, multiple of 4 or not, the parameters are the
\* text "UInt32 * K" with K = N div 4, rounded down.
C9_Amended ==
    IsRetnImm =>
        CASE RetnOperand = 0 -> dres.params = "void"
          [] RetnOperand = 4 -> dres.params = "UInt32 arg"
          [] RetnOperand = 8 -> dres.params = "UInt32 arg1, UInt32 arg2"
          [] RetnOperand = 12 -> dres.params = "UInt32 arg1, UInt32 arg2, UInt32 arg3"
          [] RetnOperand = 16 ->
               dres.params = "UInt32 arg1, UInt32 arg2, UInt32 arg3, UInt32 arg4"
          [] OTHER ->
               /\ Len(dres.params) > 9
               /\ SubSeq(dres.params, 1, 9) = "UInt32 * "
               /\ IsNumeralOf(SubSeq(dres.params, 10, Len(dres.params)),
                              RetnOperand \div 4)

\* C2 06 00 has been decompiled: six bytes are rendered as one UInt32
C9_Witness ==
    /\ IsRetnImm
    /\ CodeIs(<<194, 6, 0>>)
    /\ dres = Outputs("void  ", "UInt32 * 1", "{ return; }")

(***************************************************************************)
(* Properties of the pass as a whole.                                      *)
(***************************************************************************)
\* C10: a second pass over the same image with the same base address ends
\* with the same map (keys, lists and their order) and the same sequence of
\* output lines as the pass before it.
C10_Deterministic ==
    (PassComplete /\ passes >= 2) => (vtblMap = prevMap /\ PassLines = prevLog)

\* two passes over an image with two classes, a list of two tables and
\* rendered slots
C10_Witness ==
    /\ PassComplete
    /\ passes >= 2
    /\ Cardinality(DOMAIN vtblMap) >= 2
    /\ \E key \in DOMAIN vtblMap : Len(vtblMap[key]) >= 2
    /\ \E n \in 1..Len(PassLines) : PassLines[n].tag = "slot"

(***************************************************************************)
(* Properties of the blocks PrintVirtuals writes.                          *)
(***************************************************************************)
\* the keys of the tables LoadVTables recorded, in the order of their first
\* table: the order in which the scan of .data came upon the descriptors
RECURSIVE DistinctKeys(_, _)
DistinctKeys(rec, seen) ==
    IF rec = <<>> THEN <<>>
    ELSE IF Head(rec).key \in seen THEN DistinctKeys(Tail(rec), seen)
    ELSE <<Head(rec).key>> \o DistinctKeys(Tail(rec), seen \cup {Head(rec).key})
DiscoveryOrder == DistinctKeys(recorded, {})

\* the positions of the lines of the current pass with a tag
TagPositions(tag) == {n \in 1..Len(PassLines) : PassLines[n].tag = tag}

\* the number of hierarchy lines up to position n: the block n belongs to
BlockOf(n) == Cardinality({h \in TagPositions("hier") : h <= n})

\* the tables kept under the key of block r
BlockTables(r) == {vtblMap[DiscoveryOrder[r]][x] : x \in 1..Len(vtblMap[DiscoveryOrder[r]])}

\* C11: after a pass, the log holds one hierarchy block (opening line,
\* hierarchy text, closing line) and one table block (the annotation and slot
\* lines of the tables of one key, closed by an empty line) per key of the
\* map; the n-th hierarchy block is the one of the front table of the n-th
\* discovered key, the lines after it up to the empty line belong to the
\* tables of that key, and nothing else follows the module summary.
C11_BlockOrder ==
    PassComplete =>
        /\ Len(DiscoveryOrder) = Cardinality(DOMAIN vtblMap)
        /\ Cardinality(TagPositions("hier")) = Cardinality(DOMAIN vtblMap)
        /\ Cardinality(TagPositions("blank")) = Cardinality(DOMAIN vtblMap)
        /\ \A h \in TagPositions("hier") :
              /\ PassLines[h].vtbl = Head(vtblMap[DiscoveryOrder[BlockOf(h)]])
              /\ PassLines[h - 1].tag = "open"
              /\ IF BlockOf(h) = 1 THEN h - 1 = Len(ModuleSummary(baseAddr)) + 1
                                    ELSE h - 2 \in TagPositions("blank")
              /\ PassLines[h + 1].tag = "close"
              /\ Cardinality({e \in TagPositions("blank") : BlockOf(e) = BlockOf(h)}) = 1
        /\ \A n \in (Len(ModuleSummary(baseAddr)) + 1)..Len(PassLines) :
              \/ /\ PassLines[n].tag \in {"override", "add", "slot"}
                 /\ PassLines[n].vtbl \in BlockTables(BlockOf(n))
                 /\ \A e \in TagPositions("blank") : BlockOf(e) = BlockOf(n) => n < e
              \/ /\ PassLines[n].tag = "open"
                 /\ n + 1 \in TagPositions("hier")
              \/ PassLines[n].tag = "hier"
              \/ /\ PassLines[n].tag = "close"
                 /\ n - 1 \in TagPositions("hier")
              \/ PassLines[n].tag = "blank"
        /\ DOMAIN vtblMap # {} => PassLines[Len(PassLines)].tag = "blank"

\* a pass over three classes whose second and third blocks hold slot lines
C11_Witness ==
    /\ PassComplete
    /\ Cardinality(DOMAIN vtblMap) >= 3
    /\ \E n \in TagPositions("slot") : BlockOf(n) = 2
    /\ \E n \in TagPositions("slot") : BlockOf(n) = 3

(***************************************************************************)
(* Properties of the hierarchy text.                                       *)
(***************************************************************************)
\* the structures of table t, read from the image
HierarchyOf(t) == baseAddr + U32(mem, LocatorOf(t) + 16)
NumBaseClassesOf(t) == U32(mem, HierarchyOf(t) + 8)
BaseClassAt(t, i) ==
    baseAddr + U32(mem, baseAddr + U32(mem, HierarchyOf(t) + 12) + 4 * i)
ContainedAt(t, i) == U32(mem, BaseClassAt(t, i) + 4)

\* a text cut at its line breaks
RECURSIVE LinesFrom(_, _, _)
LinesFrom(str, start, k) ==
    IF k > Len(str) THEN <<SubSeq(str, start, Len(str))>>
    ELSE IF SubSeq(str, k, k) = "\n"
    THEN <<SubSeq(str, start, k - 1)>> \o LinesFrom(str, k + 1, k + 1)
    ELSE LinesFrom(str, start, k + 1)
LinesOf(str) == LinesFrom(str, 1, 1)

\* the hierarchy texts of the current pass
HierarchyLines == {n \in 1..Len(PassLines) : PassLines[n].tag = "hier"}

\* the rows under the header of a hierarchy text
RowsOf(str) == Tail(LinesOf(str))

\* C12 as stated: a hierarchy of n classes yields n - 1 rows after the header.
C12_AsStated ==
    PassComplete =>
        \A h \in HierarchyLines :
            Len(RowsOf(PassLines[h].str)) = NumBaseClassesOf(PassLines[h].vtbl) - 1

\* C12: the header is followed by one row per entry of the base class
\* array, index 0 included: a hierarchy of n classes yields n rows, and the
\* first row is the one of the type itself, named as in the header.
C12_Amended ==
    PassComplete =>
        \A h \in HierarchyLines :
            \E rows \in {RowsOf(PassLines[h].str)}, header \in {Head(LinesOf(PassLines[h].str))} :
                /\ Len(rows) = NumBaseClassesOf(PassLines[h].vtbl)
                /\ Len(rows) > 0 =>
                     /\ Len(rows[1]) > 6
                     /\ SubSeq(rows[1], 5, 6) = ": "
                     /\ SubSeq(header, 1, Len(rows[1]) - 4) =
                            SubSeq(rows[1], 7, Len(rows[1])) \o " +"

\* the hierarchy of a class with three bases has been written
C12_Witness ==
    /\ PassComplete
    /\ \E h \in HierarchyLines :
          /\ NumBaseClassesOf(PassLines[h].vtbl) = 4
          /\ Len(RowsOf(PassLines[h].str)) = 4

\* n indentation columns
RECURSIVE Columns(_)
Columns(n) == IF n = 0 THEN "" ELSE "|   " \o Columns(n - 1)

\* a text without a column mark
NoColumn(str) == \A k \in 1..Len(str) : SubSeq(str, k, k) # "|"

\* the columns open on the row of entry i of table t
OpenColumns(t, i) ==
    IF i = 0 THEN 0
    ELSE 1 + Cardinality({j \in 1..(i - 1) : j + ContainedAt(t, j) >= i})

\* the row starts with its displacement and exactly n columns
HasColumns(row, n) ==
    /\ Len(row) >= 6 + 4 * n
    /\ SubSeq(row, 5, 6 + 4 * n) = ": " \o Columns(n)
    /\ NoColumn(SubSeq(row, 7 + 4 * n, Len(row)))

\* C13: the row of entry i >= 1 carries one column of its own and one for
\* every earlier entry j >= 1 whose contained bases reach row i
\* (j + numContainedBases(j) >= i), so an entry with N contained bases keeps
\* a column open on exactly the next N rows; the self entry opens none.
C13_Indentation ==
    PassComplete =>
        \A h \in HierarchyLines :
            \E rows \in {RowsOf(PassLines[h].str)} :
                \A i \in 0..(Len(rows) - 1) :
                    HasColumns(rows[i + 1], OpenColumns(PassLines[h].vtbl, i))

\* a hierarchy whose entry 1 contains one base: two columns on row 2, and
\* one column again on row 3
C13_Witness ==
    /\ PassComplete
    /\ \E h \in HierarchyLines :
          /\ NumBaseClassesOf(PassLines[h].vtbl) = 4
          /\ ContainedAt(PassLines[h].vtbl, 1) = 1
          /\ \E rows \in {RowsOf(PassLines[h].str)} :
                /\ HasColumns(rows[2], 1)
                /\ HasColumns(rows[3], 2)
                /\ HasColumns(rows[4], 1)

(***************************************************************************)
(* Properties of GetTypeHierarchyInfo.                                     *)
(***************************************************************************)
\* the n bytes at a lie inside the module
Mapped(a, n) == baseAddr <= a /\ a + n - 1 < baseAddr + DATA_SEG_END

\* the hierarchy run has ended
HierarchyRunDone == pc \in {"returned", "crashed"} /\ hcall.vtbl # 0

\* the descriptor the locator of table t names
TypeOf(t) == baseAddr + U32(mem, LocatorOf(t) + 12)

\* the ways of GetTypeHierarchyInfo to fail on table t, in the order of its
\* reads: the meta word, rtti->pTypeDescriptor and type->pVFTable cannot be
\* read; the descriptor is not tagged; rtti->offset cannot be read;
\* rtti->pClassDescriptor cannot be read
FaultBeforeName(t) ==
    \/ ~Mapped(t - 8, 8)
    \/ U64(mem, t - 8)[2] # 0
    \/ ~Mapped(LocatorOf(t) + 12, 4)
    \/ ~Mapped(TypeOf(t), 8)
WrongTag(t) ==
    ~FaultBeforeName(t) /\ U64(mem, TypeOf(t)) # <<baseAddr + TYPE_INFO_VTBL, 0>>
FaultAtOffset(t) ==
    ~FaultBeforeName(t) /\ ~WrongTag(t) /\ ~Mapped(LocatorOf(t) + 4, 4)
FaultAtHierarchy(t) ==
    /\ ~FaultBeforeName(t) /\ ~WrongTag(t) /\ ~FaultAtOffset(t)
    /\ ~Mapped(LocatorOf(t) + 16, 4)
NoRtti(t) == FaultBeforeName(t) \/ WrongTag(t) \/ FaultAtOffset(t) \/ FaultAtHierarchy(t)

\* C14 as stated: whenever the descriptor is not tagged or a read of the
\* resolution faults, GetTypeHierarchyInfo fails, the caller's name, offset
\* and hierarchy are as they were, and the message is "<no rtti>" alone.
C14_AsStated ==
    (HierarchyRunDone /\ NoRtti(hcall.vtbl)) =>
        /\ ~hcall.success
        /\ hcall.after = hcall.before
        /\ pc = "returned" /\ hcall.text = "<no rtti>"

\* C14: GetTypeHierarchyInfo fails exactly when the descriptor is not tagged
\* or a read of the resolution faults, and DumpObjectClassHierarchy then
\* writes "<no rtti>" alone.  name, offset and hierarchy are as they were
\* when the failure comes before the name is stored; a fault at the read of
\* rtti->offset comes after name is assigned, a fault at the read of
\* rtti->pClassDescriptor after name and offset are assigned, and what was
\* not assigned yet is as it was.
C14_Amended ==
    HierarchyRunDone =>
        /\ hcall.success <=> ~NoRtti(hcall.vtbl)
        /\ NoRtti(hcall.vtbl) => (pc = "returned" /\ hcall.text = "<no rtti>")
        /\ (FaultBeforeName(hcall.vtbl) \/ WrongTag(hcall.vtbl)) =>
               hcall.after = hcall.before
        /\ FaultAtOffset(hcall.vtbl) =>
               /\ hcall.after.name # hcall.before.name
               /\ hcall.after.offset = hcall.before.offset
               /\ hcall.after.hierarchy = hcall.before.hierarchy
        /\ FaultAtHierarchy(hcall.vtbl) =>
               /\ hcall.after.name # hcall.before.name
               /\ hcall.after.offset = OffsetOf(hcall.vtbl)
               /\ hcall.after.hierarchy = hcall.before.hierarchy

\* a locator whose pClassDescriptor lies past the last byte of the module:
\* the call failed after it had stored the name and the offset
C14_Witness ==
    /\ HierarchyRunDone
    /\ FaultAtHierarchy(hcall.vtbl)
    /\ ~hcall.success
    /\ hcall.text = "<no rtti>"
    /\ hcall.after.name # hcall.before.name
    /\ hcall.after.offset # hcall.before.offset

(***************************************************************************)
(* Properties of GetParentVtbl.                                            *)
(***************************************************************************)
\* the entries of the base class array of table t, the self entry excluded,
\* whose displacement is the offset of the locator of t and whose
\* descriptor is a key of the map
ParentCandidates(t) ==
    {i \in 1..(NumBaseClassesOf(t) - 1) :
        /\ U32(mem, BaseClassAt(t, i) + 8) = OffsetOf(t)
        /\ (baseAddr + U32(mem, BaseClassAt(t, i))) \in DOMAIN vtblMap}

\* the table the claim names as the parent of t, 0 for none
ExpectedParent(t) ==
    IF U32(mem, LocatorOf(t) + 16) = 0 \/ ParentCandidates(t) = {} THEN 0
    ELSE Head(vtblMap[baseAddr + U32(mem,
             BaseClassAt(t, CHOOSE i \in ParentCandidates(t) :
                                \A j \in ParentCandidates(t) : i <= j))])

\* GetParentVtbl has returned for the current table and no slot has been
\* visited yet
ParentResolved == pc = "pv_slot" /\ idx = 0

\* C15: the parent PrintVirtuals gets from GetParentVtbl for a table is the
\* front table of the first entry of the base class array, the self entry
\* excluded, whose displacement equals the locator's offset and whose
\* descriptor is a key of the map; it is none when there is no such entry or
\* when the locator's pClassDescriptor is 0.
C15_ParentTable == ParentResolved => vtparent = ExpectedParent(vtbl)

\* a parent was found after an entry with the right displacement whose
\* descriptor is not in the map had been passed over
C15_Witness ==
    /\ ParentResolved
    /\ vtparent # 0
    /\ \E i \in 1..(NumBaseClassesOf(vtbl) - 1) :
          /\ U32(mem, BaseClassAt(vtbl, i) + 8) = OffsetOf(vtbl)
          /\ (baseAddr + U32(mem, BaseClassAt(vtbl, i))) \notin DOMAIN vtblMap
          /\ \E j \in ParentCandidates(vtbl) : i < j

(***************************************************************************)
(* Properties of the pass under faults.                                    *)
(***************************************************************************)
\* C16: the pass never aborts: no dereference made while a hierarchy is
\* written, a parent is resolved or a slot is rendered ends the pass, so
\* every pass that has started goes on to the next table and type.
C16_NeverAborts == pc # "crashed"

(***************************************************************************)
(* Properties of HandleSKSEMessage.                                        *)
(***************************************************************************)
\* the passes started so far: the module summaries in the log
PassesStarted ==
    Cardinality({n \in 1..Len(log) : log[n] = ModuleSummary(baseAddr)[1]})

\* C17: over any sequence of messages the pass is executed once: it is
\* never running for a message other than kMessage_DataLoaded, never
\* started before a kMessage_DataLoaded message was delivered, and never
\* started a second time.
C17_ExecutedOnce ==
    /\ pc # "idle" => lastMsg = "kMessage_DataLoaded"
    /\ PassesStarted <= msgs
    /\ PassesStarted <= 1

(***************************************************************************)
(* Properties of the reads of LoadVTables.                                 *)
(***************************************************************************)
\* C18: every byte LoadVTables reads for a descriptor word lies in
\* [dataStart, dataEnd), and every byte it reads for a locator field, a meta
\* word or the first entry of a table lies in [rdataStart, rdataEnd), at the
\* first and the last position of each loop too.
C18_ReadsInBounds ==
    \A r \in reads :
        IF r.kind = "descriptor"
        THEN baseAddr + DATA_SEG_BEGIN <= r.lo /\ r.hi < baseAddr + DATA_SEG_END
        ELSE baseAddr + RDATA_SEG_BEGIN <= r.lo /\ r.hi < baseAddr + RDATA_SEG_END

(***************************************************************************)
(* Properties of the rendering of absolute-address loads.                  *)
(***************************************************************************)
\* the function in slot i of table t
FunctionAt(t, i) == U64(mem, t + 8 * i)[1]

\* the function at f is mov eax, imm32 followed by a return
IsLoadAndReturn(f) ==
    Byte(mem, f) = 184 /\ Byte(mem, f + 5) \in {194, 195}

\* the tables recorded in the map
RecordedTables == {e[2] : e \in Entries(vtblMap)}

\* the slot lines of the current pass whose function loads an absolute
\* address and returns
LoadLines ==
    {n \in 1..Len(PassLines) :
        /\ PassLines[n].tag = "slot"
        /\ IsLoadAndReturn(FunctionAt(PassLines[n].vtbl, PassLines[n].i))}

\* the return type is a pointer to a named type
IsTypedPointer(ret) == Len(ret) > 2 /\ SubSeq(ret, Len(ret) - 1, Len(ret)) = " *"

\* C19: a slot whose function is mov eax, imm32 followed by a return is
\* rendered with a typed pointer (return type "<type name> *") if and only
\* if imm32 is the address of a table recorded in the map, and with return
\* type UInt32 otherwise.
C19_TypedIffRecorded ==
    PassComplete =>
        \A n \in LoadLines :
            \E imm \in {U32(mem, FunctionAt(PassLines[n].vtbl, PassLines[n].i) + 1)} :
                /\ IsTypedPointer(PassLines[n].ret) <=> imm \in RecordedTables
                /\ imm \notin RecordedTables => PassLines[n].ret = "UInt32"

(***************************************************************************)
(* Properties of the "@override" line.                                     *)
(***************************************************************************)
\* the "@override" lines of the current pass for table t
OverrideLines(t) ==
    {n \in 1..Len(PassLines) : PassLines[n].tag = "override" /\ PassLines[n].vtbl = t}

\* the lines of the overriding slots of table t
OverridingSlots(t) ==
    {n \in 1..Len(PassLines) :
        PassLines[n].tag = "slot" /\ PassLines[n].vtbl = t /\ HasOverride(PassLines[n].str)}

\* the class name a hierarchy header starts with: the text before " +"
RECURSIVE HeaderNameFrom(_, _)
HeaderNameFrom(str, k) ==
    IF k >= Len(str) THEN str
    ELSE IF SubSeq(str, k, k + 1) = " +" THEN SubSeq(str, 1, k - 1)
    ELSE HeaderNameFrom(str, k + 1)
HeaderName(str) == HeaderNameFrom(str, 1)

\* the line names the class whose hierarchy block is headed by table p
NamesClassOf(str, p) ==
    \E h \in HierarchyLines :
        /\ PassLines[h].vtbl = p
        /\ \E name \in {HeaderName(PassLines[h].str)} :
              /\ Len(str) > 20 + Len(name)
              /\ SubSeq(str, 1, 20 + Len(name)) = "    // @override " \o name \o " : "

\* C20: after a pass, every table in the map has at most one "@override"
\* line; it has one exactly when one of its rendered slots overrides; the
\* line names the class of the parent table and stands immediately before
\* the line of the first overriding slot.
C20_OverrideLine ==
    PassComplete =>
        \A e \in Entries(vtblMap) :
            /\ Cardinality(OverrideLines(e[2])) <= 1
            /\ OverrideLines(e[2]) # {} <=> OverridingSlots(e[2]) # {}
            /\ \A n \in OverrideLines(e[2]) :
                  /\ n + 1 \in OverridingSlots(e[2])
                  /\ \A x \in OverridingSlots(e[2]) : n < x
                  /\ NamesClassOf(PassLines[n].str, PassLines[n + 1].parent)

\* a table whose first slot is inherited and whose next two slots override:
\* one "@override" line, before the line of slot 1
C20_Witness ==
    /\ PassComplete
    /\ \E e \in Entries(vtblMap) :
          /\ Cardinality(OverridingSlots(e[2])) >= 2
          /\ \E n \in OverrideLines(e[2]) : PassLines[n].i = 1

(***************************************************************************)
(* Properties of the "@add" line.                                          *)
(***************************************************************************)
\* the "@add" lines of the current pass for table t
AddLines(t) ==
    {n \in 1..Len(PassLines) : PassLines[n].tag = "add" /\ PassLines[n].vtbl = t}

\* the lines of the addition slots of table t: rendered without a parent
AdditionSlots(t) ==
    {n \in 1..Len(PassLines) :
        PassLines[n].tag = "slot" /\ PassLines[n].vtbl = t /\ PassLines[n].parent = 0}

\* the lines of the addition slots of table t with a non-zero index
NonZeroAdditions(t) == {n \in AdditionSlots(t) : PassLines[n].i # 0}

\* the earliest line of a non-empty set of lines
FirstLine(S) == CHOOSE n \in S : \A x \in S : n <= x

\* C21 as stated: after a pass, a table with an addition slot of non-zero
\* index has exactly one "@add" line, immediately before the first such slot,
\* and a table without one has no "@add" line.
C21_AsStated ==
    PassComplete =>
        \A e \in Entries(vtblMap) :
            IF NonZeroAdditions(e[2]) = {}
            THEN AddLines(e[2]) = {}
            ELSE AddLines(e[2]) = {FirstLine(NonZeroAdditions(e[2])) - 1}

\* C21 as amended: after a pass, a table has at most one "@add" line; it has
\* one exactly when its first addition slot has a non-zero index, and the
\* line stands immediately before that slot; a table whose first addition is
\* slot 0 has no "@add" line, whatever additions follow.
C21_Amended ==
    PassComplete =>
        \A e \in Entries(vtblMap) :
            IF AdditionSlots(e[2]) = {}
               \/ PassLines[FirstLine(AdditionSlots(e[2]))].i = 0
            THEN AddLines(e[2]) = {}
            ELSE AddLines(e[2]) = {FirstLine(AdditionSlots(e[2])) - 1}

\* one table with an "@add" line before a later addition, and one table
\* whose additions start at slot 0 and go on
C21_Witness ==
    /\ PassComplete
    /\ \E e \in Entries(vtblMap) :
          /\ AddLines(e[2]) # {}
          /\ Cardinality(AdditionSlots(e[2])) >= 2
    /\ \E e \in Entries(vtblMap) :
          /\ AddLines(e[2]) = {}
          /\ Cardinality(NonZeroAdditions(e[2])) >= 1

(***************************************************************************)
(* The stub of a function that is a bare return.                           *)
(***************************************************************************)
\* C22: a function whose first byte is C3, where the decompiler recognises
\* no opening and consumes no byte, is returned as the stub with the return
\* type "void  ", the parameter list "void" and the body "{ return; }",
\* whatever the three outputs held on entry.
C22_BareReturnStub ==
    (pc = "returned" /\ Byte(mem, dfn) = 195) =>
        /\ ParseOpening(mem, names, baseAddr, dfn, "name").size = 0
        /\ dres = Outputs("void  ", "void", "{ return; }")

\* C3 has been decompiled, and the slot line carries the stub
C22_Witness ==
    /\ pc = "returned"
    /\ CodeIs(<<195>>)
    /\ dres = Outputs("void  ", "void", "{ return; }")
    /\ dline = "    virtual void   Unk_000(void);"
               \o "                                    " \o "// 40001000 { return; }"

(***************************************************************************)
(* LoadVTables only ever adds to the map.                                  *)
(***************************************************************************)
\* the number of tables in all lists of a map together
RECURSIVE TotalLength(_, _)
TotalLength(map, ks) ==
    IF ks = {} THEN 0
    ELSE LET key == CHOOSE x \in ks : TRUE
         IN  Len(map[key]) + TotalLength(map, ks \ {key})

\* the list of a key, empty for a key the map does not hold
ListOf(map, key) == IF key \in DOMAIN map THEN map[key] ELSE <<>>

\* the matches the three loops accept in the image: a descriptor word, a
\* dword naming it in a locator that passes both checks, and a meta word
\* naming that locator before an entry that points into .text
AcceptedMatches ==
    UNION {UNION {{<<i, j, k>> : k \in {h \in MetaHits(mem, baseAddr, j - 12) :
                                          InText(baseAddr, U64(mem, h + 8))}}
                  : j \in {h \in LocatorHits(mem, baseAddr, i - baseAddr) :
                              LocatorValid(mem, h - 12)}}
           : i \in DescriptorHits(mem, baseAddr)}

\* C23: a step of LoadVTables either leaves the map as it is, or adds the
\* table after the accepted meta word to one list, at its front or its
\* back, and leaves every other list and every element already stored where
\* it was, also when the list held tables before; the lists together are as
\* long as the number of matches accepted so far, and when LoadVTables
\* returns, as long as the number of matches the image holds.
C23_OnlyAdds ==
    [][(pc \in {"scan_i", "scan_j", "scan_k"}) =>
         /\ \/ vtblMap' = vtblMap /\ recorded' = recorded
            \/ /\ Len(recorded') = Len(recorded) + 1
               /\ \E key \in DOMAIN vtblMap', v \in {recorded'[Len(recorded')].k + 8} :
                     /\ DOMAIN vtblMap' = DOMAIN vtblMap \cup {key}
                     /\ vtblMap'[key] \in {<<v>> \o ListOf(vtblMap, key),
                                           Append(ListOf(vtblMap, key), v)}
                     /\ \A other \in DOMAIN vtblMap' \ {key} :
                           vtblMap'[other] = vtblMap[other]
         /\ TotalLength(vtblMap', DOMAIN vtblMap') = Len(recorded')
         /\ (pc' = "pv_type" => Len(recorded') = Cardinality(AcceptedMatches))]_vars

\* LoadVTables returned a map in which one list holds two tables, one pushed
\* at the front after the other was stored
C23_Witness ==
    /\ ScanDone
    /\ \E key \in DOMAIN vtblMap :
          /\ Len(vtblMap[key]) >= 2
          /\ \E r \in 2..Len(recorded) :
                recorded[r].key = key /\ recorded[r].front
                /\ \E q \in 1..(r - 1) : recorded[q].key = key

(***************************************************************************)
(* Slots that hold the pure-call trap.                                     *)
(***************************************************************************)
\* the slot lines of the current pass
RenderedSlots == {n \in 1..Len(PassLines) : PassLines[n].tag = "slot"}

\* the value of the slot a line was rendered for
SlotValueOf(n) == U64(mem, PassLines[n].vtbl + 8 * PassLines[n].i)

\* the text ends with the given suffix
EndsWith(str, suffix) ==
    Len(str) >= Len(suffix) /\ SubSeq(str, Len(str) - Len(suffix) + 1, Len(str)) = suffix

\* C24: after a pass, a rendered slot that holds base + PURE_CALL_ADDR has
\* the body "(pure)" and the placeholders "????  " and "????" as return type
\* and parameters, although the decompiler applied to that address would
\* return others, and its line ends with "(pure)"; every other rendered slot
\* has the three values SimpleFunctionDecompiler returns for the slot's
\* address when entered with the placeholders and an empty body.
C24_PureSlots ==
    PassComplete =>
        \A n \in RenderedSlots :
            IF SlotValueOf(n) = <<baseAddr + PURE_CALL_ADDR, 0>>
            THEN /\ PassLines[n].body = "(pure)"
                 /\ PassLines[n].ret = "????  "
                 /\ PassLines[n].params = "????"
                 /\ SubSeq(PassLines[n].str, 1, 23) = "    virtual ????   Unk_"
                 /\ EndsWith(PassLines[n].str,
                             "// " \o Hex(baseAddr + PURE_CALL_ADDR, 8) \o " (pure)")
            ELSE \E fo \in ForeignOutcomes :
                    \E out \in {SimpleFunctionDecompiler(mem, names, baseAddr, SlotValueOf(n)[1],
                                                         "????  ", "????", "", fo)} :
                        /\ ~out.fault
                        /\ PassLines[n].ret = out.ret
                        /\ PassLines[n].params = out.params
                        /\ PassLines[n].body = out.body

\* a pass rendered a slot with the trap, whose code the decompiler would
\* have recognised, next to a slot it decompiled
C24_Witness ==
    /\ PassComplete
    /\ \E n \in RenderedSlots :
          /\ SlotValueOf(n) = <<baseAddr + PURE_CALL_ADDR, 0>>
          /\ PassLines[n].body = "(pure)"
          /\ SimpleFunctionDecompiler(mem, names, baseAddr, baseAddr + PURE_CALL_ADDR,
                                      "????  ", "????", "", "name").ret = "UInt32"
          /\ n + 1 \in RenderedSlots
          /\ PassLines[n + 1].vtbl = PassLines[n].vtbl
          /\ PassLines[n + 1].ret # "????  "

(***************************************************************************)
(* The field names of the field-load and address-of-field openings.        *)
(***************************************************************************)
\* a byte as two upper-case hexadecimal digits
UpperHexByte(v) ==
    SubSeq("0123456789ABCDEF", (v \div 16) + 1, (v \div 16) + 1)
    \o SubSeq("0123456789ABCDEF", (v % 16) + 1, (v % 16) + 1)

\* a numeral without its leading zeros, the last digit kept
RECURSIVE WithoutLeadingZeros(_)
WithoutLeadingZeros(str) ==
    IF Len(str) > 1 /\ Head(str) = Head("0") THEN WithoutLeadingZeros(Tail(str)) ELSE str

\* upper-case hexadecimal of the 32-bit value with the little-endian bytes d
UpperHex32(d) ==
    WithoutLeadingZeros(UpperHexByte(d[4]) \o UpperHexByte(d[3])
                        \o UpperHexByte(d[2]) \o UpperHexByte(d[1]))

\* the four bytes of a one-byte displacement read as signed and
\* sign-extended to 32 bits
SignExtended(d) == <<d, IF d >= 128 THEN 255 ELSE 0, IF d >= 128 THEN 255 ELSE 0,
                     IF d >= 128 THEN 255 ELSE 0>>

\* the displacement bytes after an opening of n bytes: one byte
\* sign-extended, or the four bytes as they stand
Disp8At(n) == SignExtended(Byte(mem, dfn + n))
Disp32At(n) == <<Byte(mem, dfn + n), Byte(mem, dfn + n + 1), Byte(mem, dfn + n + 2),
                 Byte(mem, dfn + n + 3)>>

\* the function is the opening, its displacement of n bytes and a return
LoadsField(opening, n) ==
    /\ pc = "returned"
    /\ CodeIs(opening)
    /\ Byte(mem, dfn + Len(opening) + n) \in {194, 195}

\* C25: each of the six field openings followed by a return gives the body
\* of its kind with the field "unk" and the upper-case hexadecimal of the
\* displacement as a 32-bit value, the one-byte displacement sign-extended;
\* so the one-byte and the four-byte encoding of a displacement in
\* -128..127 give the same body.
C25_FieldNames ==
    /\ LoadsField(<<138, 65>>, 1) =>
          dres.body = "{ return (UInt8)unk" \o UpperHex32(Disp8At(2)) \o "; }"
    /\ LoadsField(<<138, 129>>, 4) =>
          dres.body = "{ return (UInt8)unk" \o UpperHex32(Disp32At(2)) \o "; }"
    /\ LoadsField(<<72, 139, 65>>, 1) =>
          dres.body = "{ return (UInt64)unk" \o UpperHex32(Disp8At(3)) \o "; }"
    /\ LoadsField(<<72, 139, 129>>, 4) =>
          dres.body = "{ return (UInt64)unk" \o UpperHex32(Disp32At(3)) \o "; }"
    /\ LoadsField(<<72, 141, 65>>, 1) =>
          dres.body = "{ return &unk" \o UpperHex32(Disp8At(3)) \o "; }"
    /\ LoadsField(<<72, 141, 129>>, 4) =>
          dres.body = "{ return &unk" \o UpperHex32(Disp32At(3)) \o "; }"

\* 8A 41 F0 C3, the load of the byte at displacement -16, has been decompiled
C25_Witness ==
    /\ pc = "returned"
    /\ CodeIs(<<138, 65, 240, 195>>)
    /\ dres = Outputs("UInt8 ", "void", "{ return (UInt8)unkFFFFFFF0; }")

(***************************************************************************)
(* The lists of the map are never empty.                                   *)
(***************************************************************************)
\* C26: in every state, during the scan, when LoadVTables has returned and
\* while PrintVirtuals runs, every key of the map has a list with at least
\* one table, and the keys PrintVirtuals has still to visit are keys of the
\* map, so that front() is applied to a list with a first element.
C26_ListsNotEmpty ==
    /\ \A key \in DOMAIN vtblMap : Len(vtblMap[key]) >= 1
    /\ pc \in {"pv_type", "pv_table", "pv_slot"} => keys \subseteq DOMAIN vtblMap

\* the scan has just created a key: its list holds the one table of the
\* match accepted last
C26_Witness ==
    /\ pc = "scan_k"
    /\ recorded # <<>>
    /\ vtblMap[recorded[Len(recorded)].key] = <<recorded[Len(recorded)].k + 8>>

(***************************************************************************)
(* A table is stored once.                                                 *)
(***************************************************************************)
\* the places of the map that hold table t: the key and the position
PlacesOf(t) ==
    UNION {{<<key, x>> : x \in {y \in 1..Len(vtblMap[key]) : vtblMap[key][y] = t}}
           : key \in DOMAIN vtblMap}

\* C27: when LoadVTables has returned, every table address stands at one
\* place of the map only: once in one list and in no other list; the key of
\* that list is the descriptor named by the locator that the meta word
\* before the table names.
C27_StoredOnce ==
    ScanDone =>
        \A key \in DOMAIN vtblMap :
            \A x \in 1..Len(vtblMap[key]) :
                /\ PlacesOf(vtblMap[key][x]) = {<<key, x>>}
                /\ key = baseAddr + U32(mem, U64(mem, vtblMap[key][x] - 8)[1] + 12)

\* LoadVTables returned every table of the image, two of them under one key
\* through two locators that name the same descriptor
C27_Witness ==
    /\ LoadVTablesReturned
    /\ Cardinality(DOMAIN vtblMap) >= 2
    /\ \A c \in Cols : PlacesOf(baseAddr + MetaOff(c) + 8) # {}
    /\ \E key \in DOMAIN vtblMap :
          /\ Len(vtblMap[key]) >= 2
          /\ U64(mem, vtblMap[key][1] - 8) # U64(mem, vtblMap[key][2] - 8)

(***************************************************************************)
(* Properties of the BindNativeMethod hook.                                *)
(***************************************************************************)
\* the function the slot held when the plugin was loaded
OriginalFunction == EXAMPLE_BASE + BIND_NATIVE_METHOD_OFFSET

\* the calls that went through the hook
HookedBinds == {n \in 1..Len(binds) : binds[n].slot = HOOK_ADDR}

\* C28: whenever the slot holds the hook, bindNativeMethod_Orig holds the
\* function the slot held before, so the original was saved before the slot
\* was overwritten; and every call that went through the hook wrote one
\* line, which names the function object, and then made exactly one call,
\* of the original function, with the two arguments it was given.
C28_HookForwards ==
    /\ vmSlot = HOOK_ADDR => bindNativeMethod_Orig = OriginalFunction
    /\ pc = "hooking" => bindNativeMethod_Orig = OriginalFunction
    /\ \A n \in HookedBinds :
          /\ Len(binds[n].lines) = 1
          /\ binds[n].logged <= Len(log)
          /\ log[binds[n].logged] = binds[n].lines[1]
          /\ \E k \in 1..Len(binds[n].lines[1].str) :
                SubSeq(binds[n].lines[1].str, k, Len(binds[n].lines[1].str))
                    = " (" \o PrefixedHex(binds[n].fn) \o ") callback="
                      \o PrefixedHex((CHOOSE f \in NativeFunctions :
                                          f.addr = binds[n].fn).callback)
          /\ binds[n].calls = <<[target |-> OriginalFunction,
                                 thisObj |-> binds[n].thisObj, fn |-> binds[n].fn]>>
    /\ pc # "crashed"

\* the plugin is loaded, one call reached the original directly before the
\* slot was redirected, and a later one reached it through the hook
C28_Witness ==
    /\ pc = "loaded"
    /\ Len(binds) = 2
    /\ binds[1].slot = OriginalFunction
    /\ binds[2].slot = HOOK_ADDR
    /\ binds[2].calls # <<>>
    /\ log[Len(log)].str = "<Actor> Function SetAlpha(Float afTargetAlpha, Bool abFade) native"
                           \o " (0x10000100) callback=0x40001010"

====
